---- MODULE Spec2Model ----
(***************************************************************************)
(* The forwarding engine of azure-blockchain-connector: Proxy.ServeHTTP    *)
(* (package proxy) with its two deferred guards, the loopback classifier   *)
(* isLoopbackAddr, and the library calls the handler's control flow        *)
(* depends on (net.SplitHostPort, url.URL.String / url.Parse inside        *)
(* http.NewRequest, compress/gzip over a response body).                   *)
(*                                                                         *)
(* Text is a sequence of characters (one-character strings; a byte that is  *)
(* not printable ASCII is written as its two hex digits), a body is a      *)
(* sequence of bytes 0..255.  Sequences are indexed from 1, Go slices from *)
(* 0: an index operator returns 0 where Go returns -1.                     *)
(***************************************************************************)
EXTENDS Integers, Sequences, FiniteSets, TLC

\* Longest plain-text upstream / inbound body drawn by Init.
MaxBodyLen == 2

----------------------------------------------------------------------------
\* Constants of package proxy.

LogWhenOnError == "onError"
LogWhenOnNon200 == "onNon200"
LogWhenAlways == "always"
LogWhatBasic == "basic"
LogWhatDetailed == "detailed"

\* The status the deferred guard writes.
StatusBadGateway == 502

\* The status the logging policy compares with.
StatusOK == 200

----------------------------------------------------------------------------
\* Strings.

\* bytealg.IndexByteString: first position of c in s, 0 when absent.
IndexByte(s, c) ==
  IF \E i \in 1..Len(s) : s[i] = c
  THEN CHOOSE i \in 1..Len(s) : s[i] = c /\ \A j \in 1..(i - 1) : s[j] # c
  ELSE 0

\* strings.LastIndex for a single byte: last position of c in s, 0 when absent.
LastIndexByte(s, c) ==
  IF \E i \in 1..Len(s) : s[i] = c
  THEN CHOOSE i \in 1..Len(s) : s[i] = c /\ \A j \in (i + 1)..Len(s) : s[j] # c
  ELSE 0

\* s[from:] of Go, with from a 1-based position.
From(s, from) == SubSeq(s, from, Len(s))

Digits == {"0", "1", "2", "3", "4", "5", "6", "7", "8", "9"}

\* net.SplitHostPort.  On every error the host and the port are empty.
SplitHostPort(hostport) ==
  LET i == LastIndexByte(hostport, ":")
      addrErr == [host |-> <<>>, port |-> <<>>, err |-> TRUE]
  IN  IF i = 0 THEN addrErr
      ELSE IF hostport[1] = "["
      THEN LET end == IndexByte(hostport, "]")
           IN  IF end = 0 THEN addrErr
               ELSE IF end + 1 # i THEN addrErr
               ELSE IF IndexByte(From(hostport, 2), "[") # 0 THEN addrErr
               ELSE IF IndexByte(From(hostport, end + 1), "]") # 0 THEN addrErr
               ELSE [host |-> SubSeq(hostport, 2, end - 1),
                     port |-> From(hostport, i + 1), err |-> FALSE]
      ELSE LET host == SubSeq(hostport, 1, i - 1)
           IN  IF IndexByte(host, ":") # 0 THEN addrErr
               ELSE IF IndexByte(hostport, "[") # 0 THEN addrErr
               ELSE IF IndexByte(hostport, "]") # 0 THEN addrErr
               ELSE [host |-> host, port |-> From(hostport, i + 1), err |-> FALSE]

\* The hosts list of isLoopbackAddr.
LoopbackHosts ==
  { <<"l", "o", "c", "a", "l", "h", "o", "s", "t">>,
    <<"1", "2", "7", ".", "0", ".", "0", ".", "1">>,
    <<":", ":", "1">> }

isLoopbackAddr(addr) == SplitHostPort(addr).host \in LoopbackHosts

----------------------------------------------------------------------------
\* Values of Go.

\* A Go nil / a local not yet assigned.
Nil == [nil |-> TRUE]

\* The header fields the model follows; a header map gives each its values.
HeaderNames == {"Accept-Encoding", "Authorization", "Content-Encoding"}
NoHeader == [n \in HeaderNames |-> <<>>]

\* The element of a one-element set.
Only(S) == CHOOSE v \in S : TRUE

----------------------------------------------------------------------------
\* Package net/url: URL.String, ParseRequestURI (the server, on the request
\* target) and Parse (http.NewRequest, on the rewritten URL).
\*
\* A character of a text is a byte: a printable ASCII byte is written as the
\* one-character string, any other byte as its two upper-case hex digits
\* ("C3" is the byte 0xC3; so is the grave accent, "60", which a string of
\* this notation cannot hold).

\* The printable ASCII characters in code order, from 32 (space) to 126 (~).
Ascii ==
  <<" ", "!", "\"", "#", "$", "%", "&", "'", "(", ")", "*", "+", ",", "-", ".", "/",
    "0", "1", "2", "3", "4", "5", "6", "7", "8", "9", ":", ";", "<", "=", ">", "?",
    "@", "A", "B", "C", "D", "E", "F", "G", "H", "I", "J", "K", "L", "M", "N", "O",
    "P", "Q", "R", "S", "T", "U", "V", "W", "X", "Y", "Z", "[", "\\", "]", "^", "_",
    "60", "a", "b", "c", "d", "e", "f", "g", "h", "i", "j", "k", "l", "m", "n", "o",
    "p", "q", "r", "s", "t", "u", "v", "w", "x", "y", "z", "{", "|", "}", "~">>

\* url.upperhex
upperhex == <<"0", "1", "2", "3", "4", "5", "6", "7", "8", "9", "A", "B", "C", "D", "E", "F">>

\* The byte value of a character.
Ord(c) ==
  IF \E i \in DOMAIN Ascii : Ascii[i] = c
  THEN 31 + (CHOOSE i \in DOMAIN Ascii : Ascii[i] = c)
  ELSE LET p == CHOOSE p \in (0..15) \X (0..15) : upperhex[p[1] + 1] \o upperhex[p[2] + 1] = c
       IN  16 * p[1] + p[2]

\* The character of a byte value.
Chr(v) ==
  IF v >= 32 /\ v <= 126 THEN Ascii[v - 31]
  ELSE upperhex[(v \div 16) + 1] \o upperhex[(v % 16) + 1]

\* url.ishex
ishex(c) ==
  c \in Digits \cup {"a", "b", "c", "d", "e", "f", "A", "B", "C", "D", "E", "F"}

\* url.unhex
unhex(c) ==
  CASE c \in Digits -> Ord(c) - Ord("0")
    [] c \in {"a", "b", "c", "d", "e", "f"} -> Ord(c) - Ord("a") + 10
    [] c \in {"A", "B", "C", "D", "E", "F"} -> Ord(c) - Ord("A") + 10
    [] OTHER -> 0

\* The encoding modes of package url.
encodePath == "encodePath"
encodePathSegment == "encodePathSegment"
encodeHost == "encodeHost"
encodeZone == "encodeZone"
encodeUserPassword == "encodeUserPassword"
encodeQueryComponent == "encodeQueryComponent"
encodeFragment == "encodeFragment"

LowerLetters ==
  {"a", "b", "c", "d", "e", "f", "g", "h", "i", "j", "k", "l", "m", "n", "o", "p", "q",
   "r", "s", "t", "u", "v", "w", "x", "y", "z"}
UpperLetters ==
  {"A", "B", "C", "D", "E", "F", "G", "H", "I", "J", "K", "L", "M", "N", "O", "P", "Q",
   "R", "S", "T", "U", "V", "W", "X", "Y", "Z"}
Letters == LowerLetters \cup UpperLetters

\* strings.ToLower of an ASCII text.
ToLower(s) ==
  [i \in DOMAIN s |-> IF s[i] \in UpperLetters THEN Chr(Ord(s[i]) + 32) ELSE s[i]]

\* strings.HasPrefix, strings.HasSuffix, strings.Count of one byte.
HasPrefix(s, prefix) == Len(s) >= Len(prefix) /\ SubSeq(s, 1, Len(prefix)) = prefix
HasSuffix(s, suffix) ==
  Len(s) >= Len(suffix) /\ SubSeq(s, Len(s) - Len(suffix) + 1, Len(s)) = suffix
Count(s, c) == Cardinality({ i \in DOMAIN s : s[i] = c })

\* strings.Cut at the first byte c: <<before, after, found>>.
Cut(s, c) ==
  Only({ IF i = 0 THEN <<s, <<>>, FALSE>>
         ELSE <<SubSeq(s, 1, i - 1), From(s, i + 1), TRUE>> : i \in {IndexByte(s, c)} })

\* strings.Index: first position where sub starts in s, 0 when absent.
Index(s, sub) ==
  LET at(i) == SubSeq(s, i, i + Len(sub) - 1) = sub
      I == 1..(Len(s) - Len(sub) + 1)
  IN  IF \E i \in I : at(i)
      THEN CHOOSE i \in I : at(i) /\ \A j \in 1..(i - 1) : ~at(j)
      ELSE 0

\* url.shouldEscape(c, mode): letters, digits and the unreserved marks are
\* never escaped; a host or zone also keeps its sub-delimiters, the colon,
\* the brackets, < > and the double quote; of the reserved characters each
\* mode escapes its own; a fragment keeps ! ( ) * as well; every other byte
\* is escaped.
shouldEscape(c, mode) ==
  IF c \in Letters \/ c \in Digits THEN FALSE
  ELSE IF /\ mode \in {encodeHost, encodeZone}
          /\ c \in {"!", "$", "&", "'", "(", ")", "*", "+", ",", ";", "=", ":",
                    "[", "]", "<", ">", "\""}
  THEN FALSE
  ELSE IF c \in {"-", "_", ".", "~"} THEN FALSE
  ELSE IF /\ c \in {"$", "&", "+", ",", "/", ":", ";", "=", "?", "@"}
          /\ mode \in {encodePath, encodePathSegment, encodeUserPassword,
                       encodeQueryComponent, encodeFragment}
  THEN CASE mode = encodePath -> c = "?"
         [] mode = encodePathSegment -> c \in {"/", ";", ",", "?"}
         [] mode = encodeUserPassword -> c \in {"@", "/", "?", ":"}
         [] mode = encodeQueryComponent -> TRUE
         [] mode = encodeFragment -> FALSE
  ELSE IF mode = encodeFragment /\ c \in {"!", "(", ")", "*"} THEN FALSE
  ELSE TRUE

\* url.escape for one byte: %XX with upper-case hex digits when shouldEscape
\* says so, "+" for a space of a query component.
escapeByte(c, mode) ==
  IF ~shouldEscape(c, mode) THEN <<c>>
  ELSE IF c = " " /\ mode = encodeQueryComponent THEN <<"+">>
  ELSE Only({ <<"%", upperhex[(v \div 16) + 1], upperhex[(v % 16) + 1]>> : v \in {Ord(c)} })

\* url.escape
RECURSIVE escape(_, _)
escape(s, mode) ==
  IF s = <<>> THEN <<>> ELSE escapeByte(Head(s), mode) \o escape(Tail(s), mode)

\* url.unescape(s, mode): [err, s].  A "%" must be followed by two hex
\* digits; in a host only %25 and the escapes of non-ASCII bytes (first digit
\* 8 or more) are allowed, in a zone those of the bytes a host may hold; a
\* raw ASCII byte that a host must escape is refused in both.  Then every
\* %XX is replaced by its byte, and "+" by a space in a query component.
RECURSIVE unescape(_, _)
unescape(s, mode) ==
  LET bad == [err |-> TRUE, s |-> <<>>]
      percent25 == <<"%", "2", "5">>
  IN  IF s = <<>> THEN [err |-> FALSE, s |-> <<>>]
      ELSE IF s[1] = "%"
      THEN IF Len(s) < 3 THEN bad
           ELSE IF ~ishex(s[2]) \/ ~ishex(s[3]) THEN bad
           ELSE IF /\ mode = encodeHost
                   /\ unhex(s[2]) < 8
                   /\ SubSeq(s, 1, 3) # percent25 THEN bad
           ELSE Only({ IF /\ mode = encodeZone
                          /\ SubSeq(s, 1, 3) # percent25
                          /\ v # 32
                          /\ shouldEscape(Chr(v), encodeHost) THEN bad
                       ELSE Only({ IF r.err THEN bad
                                   ELSE [err |-> FALSE, s |-> <<Chr(v)>> \o r.s] :
                                   r \in {unescape(From(s, 4), mode)} }) :
                       v \in {16 * unhex(s[2]) + unhex(s[3])} })
      ELSE IF s[1] = "+"
      THEN Only({ IF r.err THEN bad
                  ELSE [err |-> FALSE,
                        s |-> <<IF mode = encodeQueryComponent THEN " " ELSE "+">> \o r.s] :
                  r \in {unescape(From(s, 2), mode)} })
      ELSE IF /\ mode \in {encodeHost, encodeZone}
              /\ shouldEscape(s[1], encodeHost)
              /\ Ord(s[1]) < 128 THEN bad
      ELSE Only({ IF r.err THEN bad ELSE [err |-> FALSE, s |-> <<s[1]>> \o r.s] :
                  r \in {unescape(From(s, 2), mode)} })

\* url.validEncoded
validEncoded(s, mode) ==
  \A i \in DOMAIN s :
    \/ s[i] \in {"!", "$", "&", "'", "(", ")", "*", "+", ",", ";", "=", ":", "@",
                 "[", "]", "%"}
    \/ ~shouldEscape(s[i], mode)

\* url.stringContainsCTLByte: a byte below 0x20, or 0x7F.
CTLBytes == { Chr(v) : v \in 0..31 } \cup { Chr(127) }
stringContainsCTLByte(s) == \E i \in DOMAIN s : s[i] \in CTLBytes

\* url.User and url.UserPassword; a nil *Userinfo is Nil.
User(username) == [username |-> username, password |-> <<>>, passwordSet |-> FALSE]
UserPassword(username, password) ==
  [username |-> username, password |-> password, passwordSet |-> TRUE]

\* url.Userinfo.String
UserinfoString(u) ==
  IF u = Nil THEN <<>>
  ELSE escape(u.username, encodeUserPassword)
         \o (IF u.passwordSet THEN <<":">> \o escape(u.password, encodeUserPassword)
             ELSE <<>>)

\* The zero url.URL.
EmptyURL ==
  [Scheme |-> <<>>, Opaque |-> <<>>, User |-> Nil, Host |-> <<>>, Path |-> <<>>,
   RawPath |-> <<>>, OmitHost |-> FALSE, ForceQuery |-> FALSE, RawQuery |-> <<>>,
   Fragment |-> <<>>, RawFragment |-> <<>>]

\* url.URL.setPath: [err, url].  RawPath is kept only when p is not the
\* default encoding of the path.
setPath(u, p) ==
  Only({ IF r.err THEN [err |-> TRUE, url |-> EmptyURL]
         ELSE [err |-> FALSE,
               url |-> [u EXCEPT !.Path = r.s,
                                 !.RawPath = IF escape(r.s, encodePath) = p THEN <<>> ELSE p]] :
         r \in {unescape(p, encodePath)} })

\* url.URL.EscapedPath
EscapedPath(u) ==
  IF /\ u.RawPath # <<>>
     /\ validEncoded(u.RawPath, encodePath)
     /\ unescape(u.RawPath, encodePath) = [err |-> FALSE, s |-> u.Path]
  THEN u.RawPath
  ELSE IF u.Path = <<"*">> THEN <<"*">>
  ELSE escape(u.Path, encodePath)

\* url.URL.setFragment: [err, url].
setFragment(u, f) ==
  Only({ IF r.err THEN [err |-> TRUE, url |-> EmptyURL]
         ELSE [err |-> FALSE,
               url |-> [u EXCEPT !.Fragment = r.s,
                                 !.RawFragment =
                                    IF escape(r.s, encodeFragment) = f THEN <<>> ELSE f]] :
         r \in {unescape(f, encodeFragment)} })

\* url.URL.EscapedFragment
EscapedFragment(u) ==
  IF /\ u.RawFragment # <<>>
     /\ validEncoded(u.RawFragment, encodeFragment)
     /\ unescape(u.RawFragment, encodeFragment) = [err |-> FALSE, s |-> u.Fragment]
  THEN u.RawFragment
  ELSE escape(u.Fragment, encodeFragment)

\* url.URL.String: scheme, then the opaque text, or "//" with the user
\* information and the escaped host (left out for an empty host that was
\* written without "//"), a "/" before a relative path that follows a host,
\* "./" before a first segment with a colon when nothing precedes it, the
\* escaped path; then the query and the fragment.
URLString(u) ==
  LET scheme == IF u.Scheme # <<>> THEN u.Scheme \o <<":">> ELSE <<>>
      authority ==
        IF u.Scheme = <<>> /\ u.Host = <<>> /\ u.User = Nil THEN <<>>
        ELSE IF u.OmitHost /\ u.Host = <<>> /\ u.User = Nil THEN <<>>
        ELSE (IF u.Host # <<>> \/ u.Path # <<>> \/ u.User # Nil THEN <<"/", "/">> ELSE <<>>)
               \o (IF u.User # Nil THEN UserinfoString(u.User) \o <<"@">> ELSE <<>>)
               \o (IF u.Host # <<>> THEN escape(u.Host, encodeHost) ELSE <<>>)
      hier ==
        Only({ Only({ head
                        \o (IF head = <<>> /\ IndexByte(Cut(path, "/")[1], ":") # 0
                            THEN <<".", "/">> ELSE <<>>)
                        \o path :
                      head \in {scheme \o authority
                                  \o (IF path # <<>> /\ path[1] # "/" /\ u.Host # <<>>
                                      THEN <<"/">> ELSE <<>>)} }) :
               path \in {EscapedPath(u)} })
  IN  (IF u.Opaque # <<>> THEN scheme \o u.Opaque ELSE hier)
        \o (IF u.ForceQuery \/ u.RawQuery # <<>> THEN <<"?">> \o u.RawQuery ELSE <<>>)
        \o (IF u.Fragment # <<>> THEN <<"#">> \o EscapedFragment(u) ELSE <<>>)

\* url.getScheme: [err, scheme, path].  A scheme is a letter followed by
\* letters, digits, "+", "-" and "." up to the first colon.
getScheme(rawURL) ==
  LET none == [err |-> FALSE, scheme |-> <<>>, path |-> rawURL]
      other(i) == rawURL[i] \notin Letters \cup Digits \cup {"+", "-", "."}
  IN  IF rawURL = <<>> THEN none
      ELSE IF rawURL[1] \in Digits \cup {"+", "-", "."} THEN none
      ELSE IF \A i \in DOMAIN rawURL : ~other(i) THEN none
      ELSE Only({ IF rawURL[j] # ":" THEN none
                  ELSE IF j = 1 THEN [err |-> TRUE, scheme |-> <<>>, path |-> <<>>]
                  ELSE [err |-> FALSE, scheme |-> SubSeq(rawURL, 1, j - 1),
                        path |-> From(rawURL, j + 1)] :
                  j \in {CHOOSE i \in DOMAIN rawURL :
                           other(i) /\ \A m \in 1..(i - 1) : ~other(m)} })

\* url.validOptionalPort
validOptionalPort(port) ==
  \/ port = <<>>
  \/ /\ port[1] = ":"
     /\ \A i \in 2..Len(port) : port[i] \in Digits

\* url.parseHost: [err, host].  The port check, then unescape; a bracketed
\* host with a zone (%25) is unescaped in three parts.
parseHost(host) ==
  LET bad == [err |-> TRUE, host |-> <<>>]
      whole == Only({ [err |-> r.err, host |-> r.s] : r \in {unescape(host, encodeHost)} })
  IN  IF host # <<>> /\ host[1] = "["
      THEN LET i == LastIndexByte(host, "]")
               zone == Index(SubSeq(host, 1, i - 1), <<"%", "2", "5">>)
           IN  IF i = 0 THEN bad
               ELSE IF ~validOptionalPort(From(host, i + 1)) THEN bad
               ELSE IF zone = 0 THEN whole
               ELSE Only({ IF h[1].err \/ h[2].err \/ h[3].err THEN bad
                           ELSE [err |-> FALSE, host |-> h[1].s \o h[2].s \o h[3].s] :
                           h \in {<<unescape(SubSeq(host, 1, zone - 1), encodeHost),
                                    unescape(SubSeq(host, zone, i - 1), encodeZone),
                                    unescape(From(host, i), encodeHost)>>} })
      ELSE LET i == LastIndexByte(host, ":")
           IN  IF i # 0 /\ ~validOptionalPort(From(host, i)) THEN bad
               ELSE whole

\* url.validUserinfo
validUserinfo(s) ==
  \A i \in 1..Len(s) :
    \/ s[i] \in Letters
    \/ s[i] \in Digits
    \/ s[i] \in {"-", ".", "_", ":", "~", "!", "$", "&", "'", "(", ")", "*", "+", ",",
                 ";", "=", "%", "@"}

\* url.parseAuthority: [err, user, host].  The text before the last "@" is
\* the user information, nil when there is no "@": a name, or a name and a
\* password cut at the first colon, each unescaped.
parseAuthority(authority) ==
  LET i == LastIndexByte(authority, "@")
      userinfo == SubSeq(authority, 1, i - 1)
      bad == [err |-> TRUE, user |-> Nil, host |-> <<>>]
  IN  Only({ IF h.err THEN bad
             ELSE IF i = 0 THEN [err |-> FALSE, user |-> Nil, host |-> h.host]
             ELSE IF ~validUserinfo(userinfo) THEN bad
             ELSE IF IndexByte(userinfo, ":") = 0
             THEN Only({ IF n.err THEN bad
                         ELSE [err |-> FALSE, user |-> User(n.s), host |-> h.host] :
                         n \in {unescape(userinfo, encodeUserPassword)} })
             ELSE Only({ IF np[1].err \/ np[2].err THEN bad
                         ELSE [err |-> FALSE, user |-> UserPassword(np[1].s, np[2].s),
                               host |-> h.host] :
                         np \in { Only({ <<unescape(c[1], encodeUserPassword),
                                           unescape(c[2], encodeUserPassword)>> :
                                         c \in {Cut(userinfo, ":")} }) } }) :
             h \in {parseHost(From(authority, i + 1))} })

\* url.parse(rawURL, viaRequest): [err, url].  The scheme is cut off and
\* lower-cased, then the query; what is left is an opaque text (a scheme and
\* no leading "/"), or "//" authority and path, or a path.
parse(rawURL, viaRequest) ==
  LET bad == [err |-> TRUE, url |-> EmptyURL]
      \* the URL with scheme and query, and the rest
      query(scheme, rest) ==
        IF HasSuffix(rest, <<"?">>) /\ Count(rest, "?") = 1
        THEN [url |-> [EmptyURL EXCEPT !.Scheme = ToLower(scheme), !.ForceQuery = TRUE],
              rest |-> SubSeq(rest, 1, Len(rest) - 1)]
        ELSE Only({ [url |-> [EmptyURL EXCEPT !.Scheme = ToLower(scheme), !.RawQuery = c[2]],
                     rest |-> c[1]] : c \in {Cut(rest, "?")} })
      \* the authority and the path
      hier(u, rest) ==
        IF ~HasPrefix(rest, <<"/">>) /\ u.Scheme # <<>>
        THEN [err |-> FALSE, url |-> [u EXCEPT !.Opaque = rest]]
        ELSE IF ~HasPrefix(rest, <<"/">>) /\ viaRequest THEN bad
        ELSE IF ~HasPrefix(rest, <<"/">>) /\ IndexByte(Cut(rest, "/")[1], ":") # 0 THEN bad
        ELSE IF /\ u.Scheme # <<>> \/ (~viaRequest /\ ~HasPrefix(rest, <<"/", "/", "/">>))
                /\ HasPrefix(rest, <<"/", "/">>)
        THEN Only({ Only({ IF a.err THEN bad
                           ELSE setPath([u EXCEPT !.User = a.user, !.Host = a.host],
                                        IF i = 0 THEN <<>> ELSE From(From(rest, 3), i)) :
                           a \in {parseAuthority(IF i = 0 THEN From(rest, 3)
                                                 ELSE SubSeq(rest, 3, i + 1))} }) :
                    i \in {IndexByte(From(rest, 3), "/")} })
        ELSE setPath([u EXCEPT !.OmitHost = u.Scheme # <<>> /\ HasPrefix(rest, <<"/">>)], rest)
  IN  IF stringContainsCTLByte(rawURL) THEN bad
      ELSE IF rawURL = <<>> /\ viaRequest THEN bad
      ELSE IF rawURL = <<"*">> THEN [err |-> FALSE, url |-> [EmptyURL EXCEPT !.Path = <<"*">>]]
      ELSE Only({ IF g.err THEN bad
                  ELSE Only({ hier(q.url, q.rest) : q \in {query(g.scheme, g.path)} }) :
                  g \in {getScheme(rawURL)} })

\* url.ParseRequestURI, which the server applies to the request target.
ParseRequestURI(rawURL) == parse(rawURL, TRUE)

\* url.Parse: [err, url].  The fragment is cut at the first "#" and
\* unescaped.
ParseURL(rawURL) ==
  Only({ Only({ IF p.err THEN p
                ELSE IF c[2] = <<>> THEN p
                ELSE setFragment(p.url, c[2]) :
                p \in {parse(c[1], FALSE)} }) :
         c \in {Cut(rawURL, "#")} })

\* http.removeEmptyPort
removeEmptyPort(host) ==
  IF /\ LastIndexByte(host, ":") > LastIndexByte(host, "]")
     /\ host[Len(host)] = ":"
  THEN SubSeq(host, 1, Len(host) - 1)
  ELSE host

\* http.MethodGet, http.MethodPost.  A method is the tuple of its characters.
MethodGet == <<"G", "E", "T">>
MethodPost == <<"P", "O", "S", "T">>

\* http.validMethod: a method is a non-empty token (httpguts.IsTokenRune:
\* letters, digits and ! # $ % & ' * + - . ^ _ ` | ~).
validMethod(method) ==
  /\ Len(method) > 0
  /\ \A i \in DOMAIN method :
       method[i] \in Letters \cup Digits \cup
         {"!", "#", "$", "%", "&", "'", "*", "+", "-", ".", "^", "_", "60", "|", "~"}

\* http.NewRequest(method, url, body) with body a *bytes.Buffer: an empty
\* method stands for GET; a method that is no token is refused ("net/http:
\* invalid method"); then the URL is parsed and its empty port removed; the
\* header map is new and empty, Host is the host of the URL, ContentLength
\* the length of the buffer.
NewRequest(method, urlStr, body) ==
  Only({ IF ~validMethod(m) THEN [err |-> TRUE]
         ELSE Only({ IF p.err THEN [err |-> TRUE]
                     ELSE Only({ [err |-> FALSE,
                                  req |-> [Method |-> m,
                                           URL |-> [p.url EXCEPT !.Host = host],
                                           Header |-> NoHeader,
                                           Body |-> body,
                                           ContentLength |-> Len(body),
                                           Host |-> host]] :
                                 host \in {removeEmptyPort(p.url.Host)} }) :
                     p \in {ParseURL(urlStr)} }) :
         m \in {IF method = <<>> THEN MethodGet ELSE method} })

----------------------------------------------------------------------------
\* compress/gzip over a response body.  A body stream is [data, fails]: the
\* bytes it delivers, and whether the read after the last byte is an error
\* (a broken connection) instead of EOF.  The 32-bit CRC is kept as two
\* 16-bit halves <<high, low>>.

\* Bit i of a.
Bit(a, i) == (a \div (2 ^ i)) % 2

\* Exclusive or of two 16-bit values.
Xor(a, b) ==
  LET x(i) == ((Bit(a, i) + Bit(b, i)) % 2) * (2 ^ i)
  IN  x(0) + x(1) + x(2) + x(3) + x(4) + x(5) + x(6) + x(7)
        + x(8) + x(9) + x(10) + x(11) + x(12) + x(13) + x(14) + x(15)

\* The reflected IEEE polynomial 0xEDB88320.
CrcPoly == <<60856, 33568>>

\* One bit of the bit-wise CRC: shift right, and xor the polynomial in when
\* the bit shifted out is set.
CrcShift(c) ==
  Only({ LET sh == <<x[1] \div 2, (x[2] \div 2) + (x[1] % 2) * 32768>>
         IN  IF x[2] % 2 = 1
             THEN <<Xor(sh[1], CrcPoly[1]), Xor(sh[2], CrcPoly[2])>>
             ELSE sh : x \in {c} })

\* crc32.Update from the value c over the bytes lo..hi of data, a byte at a
\* time: the byte is xored into the low bits and taken through eight shifts.
\* The range is split in halves.
RECURSIVE CrcBytes(_, _, _, _)
CrcBytes(c, data, lo, hi) ==
  IF lo > hi THEN c
  ELSE IF lo = hi
  THEN Only({ CrcShift(CrcShift(CrcShift(CrcShift(CrcShift(CrcShift(CrcShift(CrcShift(
                <<x[1], Xor(x[2], data[lo])>>)))))))) : x \in {c} })
  ELSE Only({ CrcBytes(m, data, ((lo + hi) \div 2) + 1, hi) :
              m \in {CrcBytes(c, data, lo, (lo + hi) \div 2)} })

\* crc32.Update over the first n bytes of data, from the initial value.
CrcUpdate(data, n) == CrcBytes(<<65535, 65535>>, data, 1, n)

\* crc32.ChecksumIEEE
Crc32(data) ==
  Only({ <<65535 - c[1], 65535 - c[2]>> : c \in {CrcUpdate(data, Len(data))} })

\* A 16-bit value as two little-endian bytes.
Le16(v) == <<v % 256, v \div 256>>

\* The gzip trailer of a member whose output is out: CRC-32 and ISIZE,
\* little-endian.  Outputs of the model are shorter than 65536 bytes.
GzipTrailer(out) ==
  LET c == Crc32(out)
  IN  Le16(c[2]) \o Le16(c[1]) \o Le16(Len(out)) \o <<0, 0>>

\* gzip.Reader.readString from position p: the position of the 0 byte that
\* ends the string, 0 on an error: the data ends before a 0 byte, or none of
\* the first 512 bytes (the size of the reader's buffer) is 0.
ZeroFrom(d, p) ==
  LET I == { i \in p..Len(d) : i < p + 512 }
  IN  IF \E i \in I : d[i] = 0
      THEN CHOOSE i \in I : d[i] = 0 /\ \A j \in p..(i - 1) : d[j] # 0
      ELSE 0

\* gzip.Reader.readHeader on the member that starts at position p: the
\* position after the header, 0 on any error (short read, bad magic, bad
\* method, bad header CRC).
GzipHeaderEnd(d, p) ==
  IF p + 9 > Len(d) THEN 0
  ELSE IF d[p] # 31 \/ d[p + 1] # 139 \/ d[p + 2] # 8 THEN 0
  ELSE
    LET flg == d[p + 3]
        hasCrc == (flg \div 2) % 2 = 1
        hasExtra == (flg \div 4) % 2 = 1
        hasName == (flg \div 8) % 2 = 1
        hasComment == (flg \div 16) % 2 = 1
        a == p + 10
        b == IF ~hasExtra THEN a
             ELSE IF a + 1 > Len(d) THEN 0
             ELSE IF a + 1 + d[a] + 256 * d[a + 1] > Len(d) THEN 0
             ELSE a + 2 + d[a] + 256 * d[a + 1]
        c == IF b = 0 \/ ~hasName THEN b
             ELSE IF ZeroFrom(d, b) = 0 THEN 0 ELSE ZeroFrom(d, b) + 1
        e == IF c = 0 \/ ~hasComment THEN c
             ELSE IF ZeroFrom(d, c) = 0 THEN 0 ELSE ZeroFrom(d, c) + 1
    IN  IF e = 0 \/ ~hasCrc THEN e
        ELSE IF e + 1 > Len(d) THEN 0
        ELSE IF <<d[e], d[e + 1]>> # Le16(Crc32(SubSeq(d, p, e - 1))[2]) THEN 0
        ELSE e + 2

\* compress/flate.  Bits are counted over the whole stream d from bit 0, the
\* low bit of the first byte; the decompressor takes bytes one at a time and
\* only when it needs their bits, so after k bits the next byte it has not
\* touched is at position (k + 7) \div 8 + 1.

\* Bit k of the stream.
StreamBit(d, k) == (d[(k \div 8) + 1] \div (2 ^ (k % 8))) % 2

\* The number in the n bits from bit k, lowest bit first.
RECURSIVE StreamBits(_, _, _)
StreamBits(d, k, n) ==
  IF n = 0 THEN 0 ELSE StreamBit(d, k) + 2 * StreamBits(d, k + 1, n - 1)

\* Whether the stream still holds n bits from bit k (moreBits does not meet
\* the end of the data).
HasBits(d, k, n) == k + n <= 8 * Len(d)

\* A Huffman code is the sequence of its code lengths: lengths[s + 1] is the
\* length of the code of symbol s, 0 when the symbol has none.

\* huffmanDecoder.init: an empty code is accepted, as is a complete one and
\* the code of a single symbol of length 1.
huffmanInit(lengths) ==
  LET used == { lengths[i] : i \in DOMAIN lengths } \ {0}
      max == CHOOSE n \in used : \A m \in used : m <= n
      count(n) == Cardinality({ i \in DOMAIN lengths : lengths[i] = n })
      RECURSIVE code(_)
      code(n) == IF n = 0 THEN 0 ELSE 2 * code(n - 1) + count(n)
  IN  \/ used = {}
      \/ Only({ c = 2 ^ max \/ (c = 1 /\ max = 1) : c \in {code(max)} })

\* decompressor.huffSym: the symbol whose code starts at bit k, [err, sym, k].
\* The canonical code is walked a bit at a time: code holds the bits read so
\* far, first the first code of the current length.  Running out of data and
\* meeting a bit pattern that is no code are errors.
RECURSIVE huffSymLen(_, _, _, _, _, _)
huffSymLen(lengths, d, k, len, code, first) ==
  IF len > 15 \/ ~HasBits(d, k, len) THEN [err |-> TRUE, sym |-> 0, k |-> k]
  ELSE Only({ IF x[1] - x[2] < first
              THEN [err |-> FALSE,
                    sym |-> (CHOOSE i \in DOMAIN lengths :
                               /\ lengths[i] = len
                               /\ Cardinality({ j \in 1..(i - 1) : lengths[j] = len })
                                    = x[1] - first) - 1,
                    k |-> k + len]
              ELSE huffSymLen(lengths, d, k, len + 1, 2 * x[1], 2 * (first + x[2])) :
              x \in {<<code + StreamBit(d, k + len - 1),
                       Cardinality({ i \in DOMAIN lengths : lengths[i] = len })>>} })

huffSym(lengths, d, k) == huffSymLen(lengths, d, k, 1, 0, 0)

\* The code lengths of fixedHuffmanDecoder.
fixedLengths ==
  [i \in 1..288 |-> IF i - 1 < 144 THEN 8
                    ELSE IF i - 1 < 256 THEN 9
                    ELSE IF i - 1 < 280 THEN 7
                    ELSE 8]

\* The order in which a dynamic block gives the lengths of the code-length
\* code (flate.codeOrder).
codeOrder == <<16, 17, 18, 0, 8, 7, 9, 6, 10, 5, 11, 4, 12, 3, 13, 2, 14, 1, 15>>

\* The length of a match from its symbol v (257..285): <<base, extra bits>>.
matchLength(v) ==
  CASE v < 265 -> <<v - (257 - 3), 0>>
    [] v >= 265 /\ v < 269 -> <<v * 2 - (265 * 2 - 11), 1>>
    [] v >= 269 /\ v < 273 -> <<v * 4 - (269 * 4 - 19), 2>>
    [] v >= 273 /\ v < 277 -> <<v * 8 - (273 * 8 - 35), 3>>
    [] v >= 277 /\ v < 281 -> <<v * 16 - (277 * 16 - 67), 4>>
    [] v >= 281 /\ v < 285 -> <<v * 32 - (281 * 32 - 131), 5>>
    [] OTHER -> <<258, 0>>

\* One turn of the loop of decompressor.huffmanBlock, from the state
\* s = [err, done, out, k]: a literal is appended, the end-of-block symbol
\* ends the block, a length symbol starts a match whose distance follows and
\* which is copied from the history out.  hl is the code of the literals and
\* lengths, hd that of the distances, <<>> for the fixed five-bit distances
\* (f.hd == nil).
huffmanStep(d, hl, hd, s) ==
  LET bad == [s EXCEPT !.err = TRUE]
      out == s.out
      \* the distance symbol after the length's extra bits: [err, sym, k]
      distSym(j) ==
        IF hd = <<>>
        THEN IF ~HasBits(d, j, 5) THEN [err |-> TRUE, sym |-> 0, k |-> j]
             ELSE [err |-> FALSE,
                   sym |-> 16 * StreamBit(d, j) + 8 * StreamBit(d, j + 1)
                             + 4 * StreamBit(d, j + 2) + 2 * StreamBit(d, j + 3)
                             + StreamBit(d, j + 4),
                   k |-> j + 5]
        ELSE huffSym(hd, d, j)
      \* the match of length len whose distance symbol is t
      copy(len, t) ==
        IF t.err THEN bad
        ELSE IF t.sym >= 30 THEN bad
        ELSE Only({ IF ~HasBits(d, t.k, nb) THEN bad
                    ELSE Only({ IF dist > Len(out) THEN bad
                                ELSE [s EXCEPT
                                        !.k = t.k + nb,
                                        !.out = out \o [i \in 1..len |->
                                                  out[Len(out) - dist + 1 + ((i - 1) % dist)]]] :
                                dist \in {IF t.sym < 4 THEN t.sym + 1
                                          ELSE 2 ^ (nb + 1) + 1 + (t.sym % 2) * (2 ^ nb)
                                                 + StreamBits(d, t.k, nb)} }) :
                    nb \in {IF t.sym < 4 THEN 0 ELSE (t.sym - 2) \div 2} })
  IN  Only({ IF v.err THEN bad
             ELSE IF v.sym < 256 THEN [s EXCEPT !.k = v.k, !.out = Append(out, v.sym)]
             ELSE IF v.sym = 256 THEN [s EXCEPT !.k = v.k, !.done = TRUE]
             ELSE IF v.sym >= 286 THEN bad
             ELSE Only({ IF ~HasBits(d, v.k, m[2]) THEN bad
                         ELSE Only({ copy(m[1] + StreamBits(d, v.k, m[2]), t) :
                                     t \in {distSym(v.k + m[2])} }) :
                         m \in {matchLength(v.sym)} }) :
             v \in {huffSym(hl, d, s.k)} })

\* The loop of huffmanBlock for at most n turns, split in halves.
RECURSIVE huffmanSteps(_, _, _, _, _)
huffmanSteps(d, hl, hd, s, n) ==
  IF s.err \/ s.done THEN s
  ELSE IF n <= 1 THEN huffmanStep(d, hl, hd, s)
  ELSE Only({ huffmanSteps(d, hl, hd, t, n - (n \div 2)) :
              t \in {huffmanSteps(d, hl, hd, s, n \div 2)} })

\* decompressor.huffmanBlock from bit k: [err, out, k].  The loop ends at the
\* end-of-block symbol or at an error.  Every symbol takes at least one bit,
\* so after as many turns as there are bits left the data is used up, and
\* the turn after them fails for want of data (io.ErrUnexpectedEOF).
huffmanBlock(d, k, hl, hd, out) ==
  Only({ [err |-> r.err, out |-> r.out, k |-> r.k] :
         r \in { Only({ huffmanSteps(d, hl, hd, s0, 8 * Len(d) - k + 1) :
                        s0 \in {[err |-> FALSE, done |-> FALSE, out |-> out, k |-> k]} }) } })

\* One turn of the loop of decompressor.readHuffman that reads n code lengths
\* with the code-length code h1, from the state s = [err, bits, k].  Symbols
\* 16, 17 and 18 repeat the length before, or 0, a number of times given by
\* extra bits.
readLengthsStep(d, h1, n, s) ==
  LET bad == [s EXCEPT !.err = TRUE]
      bits == s.bits
      repeat(j, nb, base, b) ==
        IF ~HasBits(d, j, nb) THEN bad
        ELSE Only({ IF Len(bits) + rep > n THEN bad
                    ELSE [s EXCEPT !.k = j + nb, !.bits = bits \o [i \in 1..rep |-> b]] :
                    rep \in {base + StreamBits(d, j, nb)} })
  IN  Only({ IF v.err THEN bad
             ELSE IF v.sym < 16 THEN [s EXCEPT !.k = v.k, !.bits = Append(bits, v.sym)]
             ELSE IF v.sym = 16
             THEN IF bits = <<>> THEN bad
                  ELSE repeat(v.k, 2, 3, bits[Len(bits)])
             ELSE IF v.sym = 17 THEN repeat(v.k, 3, 3, 0)
             ELSE repeat(v.k, 7, 11, 0) :
             v \in {huffSym(h1, d, s.k)} })

\* That loop for at most m turns, split in halves.
RECURSIVE readLengthsSteps(_, _, _, _, _)
readLengthsSteps(d, h1, n, s, m) ==
  IF s.err \/ Len(s.bits) = n THEN s
  ELSE IF m <= 1 THEN readLengthsStep(d, h1, n, s)
  ELSE Only({ readLengthsSteps(d, h1, n, t, m - (m \div 2)) :
              t \in {readLengthsSteps(d, h1, n, s, m \div 2)} })

\* The n code lengths read from bit k: [err, bits, k].  Every turn adds at
\* least one length.
readLengths(d, k, h1, n) ==
  Only({ readLengthsSteps(d, h1, n, s0, n) :
         s0 \in {[err |-> FALSE, bits |-> <<>>, k |-> k]} })

\* decompressor.readHuffman and the block it introduces: the counts HLIT,
\* HDIST and HCLEN, the code-length code, the two codes, then the data.
dynamicBlock(d, k, out) ==
  LET bad == [err |-> TRUE, out |-> out, k |-> k]
      nlit == StreamBits(d, k, 5) + 257
      ndist == StreamBits(d, k + 5, 5) + 1
      nclen == StreamBits(d, k + 10, 4) + 4
      codebits ==
        [s \in 1..19 |->
           IF \E i \in 1..nclen : codeOrder[i] = s - 1
           THEN StreamBits(d, k + 14 + 3 * ((CHOOSE i \in 1..nclen : codeOrder[i] = s - 1) - 1), 3)
           ELSE 0]
  IN  IF ~HasBits(d, k, 14) THEN bad
      ELSE IF nlit > 286 \/ ndist > 30 THEN bad
      ELSE IF ~HasBits(d, k + 14, 3 * nclen) THEN bad
      ELSE Only({ IF ~huffmanInit(h1) THEN bad
                  ELSE Only({ IF r.err THEN bad
                              ELSE Only({ IF ~huffmanInit(h[1]) \/ ~huffmanInit(h[2]) THEN bad
                                          ELSE huffmanBlock(d, r.k, h[1], h[2], out) :
                                          h \in {<<SubSeq(r.bits, 1, nlit),
                                                   SubSeq(r.bits, nlit + 1, nlit + ndist)>>} }) :
                              r \in {readLengths(d, k + 14 + 3 * nclen, h1, nlit + ndist)} }) :
                  h1 \in {codebits} })

\* decompressor.dataBlock: a stored block, whose length and complement start
\* at the next byte boundary.  [err, out, k].
dataBlock(d, k, out) ==
  LET bad == [err |-> TRUE, out |-> out, k |-> k]
      q == ((k + 7) \div 8) + 1
      len == d[q] + 256 * d[q + 1]
      nlen == d[q + 2] + 256 * d[q + 3]
  IN  IF q + 3 > Len(d) THEN bad
      ELSE IF nlen # 65535 - len THEN bad
      ELSE IF q + 3 + len > Len(d) THEN bad
      ELSE [err |-> FALSE, out |-> out \o SubSeq(d, q + 4, q + 3 + len),
            k |-> 8 * (q + 3 + len)]

\* decompressor.nextBlock until the final block: three header bits (final,
\* then the type), then the block.  [err, out, pos], pos the position of the
\* first byte after the stream.
RECURSIVE inflateBlocks(_, _, _)
inflateBlocks(d, k, out) ==
  LET bad == [err |-> TRUE, out |-> out, pos |-> (k \div 8) + 1]
      final == StreamBit(d, k) = 1
      typ == StreamBits(d, k + 1, 2)
  IN  IF ~HasBits(d, k, 3) THEN bad
      ELSE Only({ IF b.err THEN bad
                  ELSE IF final THEN [err |-> FALSE, out |-> b.out, pos |-> ((b.k + 7) \div 8) + 1]
                  ELSE inflateBlocks(d, b.k, b.out) :
                  b \in {CASE typ = 0 -> dataBlock(d, k + 3, out)
                           [] typ = 1 -> Only({ huffmanBlock(d, k + 3, hl, <<>>, out) :
                                                hl \in {fixedLengths} })
                           [] typ = 2 -> dynamicBlock(d, k + 3, out)
                           [] OTHER -> [err |-> TRUE, out |-> out, k |-> k]} })

\* flate.NewReader(r) read to its end, r at position p of d: [err, out, pos].
Inflate(d, p, out) == inflateBlocks(d, 8 * (p - 1), out)

\* gzip.Reader.Read to the end (multistream): the members from the one whose
\* deflate data starts at p, acc the output of the members before it.
\* [err, out].
RECURSIVE GzipMembers(_, _, _, _)
GzipMembers(d, fails, p, acc) ==
  LET blk == Inflate(d, p, <<>>)
      t == blk.pos
  IN  IF blk.err THEN [err |-> TRUE, out |-> <<>>]
      ELSE IF t + 7 > Len(d) THEN [err |-> TRUE, out |-> <<>>]
      ELSE IF SubSeq(d, t, t + 7) # GzipTrailer(blk.out) THEN [err |-> TRUE, out |-> <<>>]
      ELSE IF t + 8 > Len(d)
           THEN [err |-> fails, out |-> IF fails THEN <<>> ELSE acc \o blk.out]
      ELSE IF GzipHeaderEnd(d, t + 8) = 0 THEN [err |-> TRUE, out |-> <<>>]
      ELSE GzipMembers(d, fails, GzipHeaderEnd(d, t + 8), acc \o blk.out)

\* A reader that hands the body on undecoded once the header has been read,
\* as a handler that forgot to read through the gzip reader would.
GunzipRaw(body) ==
  [newReaderErr |-> GzipHeaderEnd(body.data, 1) = 0, readErr |-> FALSE, data |-> body.data]

\* gzip.NewReader(body) followed by ioutil.ReadAll(reader):
\* [newReaderErr, readErr, data].
Gunzip(body) ==
  LET h == GzipHeaderEnd(body.data, 1)
  IN  IF h = 0 THEN [newReaderErr |-> TRUE, readErr |-> FALSE, data |-> <<>>]
      ELSE LET m == GzipMembers(body.data, body.fails, h, <<>>)
           IN  [newReaderErr |-> FALSE, readErr |-> m.err, data |-> m.out]

\* bytes.Buffer.ReadFrom(body): the bytes delivered; the handler drops the
\* error.
ReadFrom(body) == body.data

\* A gzip member holding text in one final stored block, with the header
\* compress/gzip writes (no flags, no time, unknown OS).
GzipStored(text) ==
  <<31, 139, 8, 0, 0, 0, 0, 0, 0, 255>>
    \o <<1>> \o Le16(Len(text)) \o Le16(65535 - Len(text)) \o text
    \o GzipTrailer(text)

\* The bits of v in n places, highest first: a Huffman code as deflate
\* writes it.
RECURSIVE CodeBits(_, _)
CodeBits(v, n) == IF n = 0 THEN <<>> ELSE CodeBits(v \div 2, n - 1) \o <<v % 2>>

\* Bits packed into bytes from the low bit up, the last byte filled with 0.
PackBits(bits) ==
  LET bit(i) == IF i <= Len(bits) THEN bits[i] ELSE 0
  IN  [b \in 1..((Len(bits) + 7) \div 8) |->
         bit(8 * b - 7) + 2 * bit(8 * b - 6) + 4 * bit(8 * b - 5) + 8 * bit(8 * b - 4)
           + 16 * bit(8 * b - 3) + 32 * bit(8 * b - 2) + 64 * bit(8 * b - 1) + 128 * bit(8 * b)]

\* The fixed Huffman codes of the literals of text (bytes below 144, whose
\* codes are the eight bits of 48 + byte).
RECURSIVE LiteralCodes(_)
LiteralCodes(text) ==
  IF text = <<>> THEN <<>> ELSE CodeBits(48 + Head(text), 8) \o LiteralCodes(Tail(text))

\* A gzip member holding text in one final block of fixed Huffman codes, as
\* a compressing upstream sends a short body: the header bits (final, type
\* 1), the literals, the end-of-block code of seven 0 bits.
GzipFixed(text) ==
  <<31, 139, 8, 0, 0, 0, 0, 0, 0, 255>>
    \o PackBits(<<1, 1, 0>> \o LiteralCodes(text) \o CodeBits(0, 7))
    \o GzipTrailer(text)

\* The text of GzipDynamic: "hihih".
DynamicText == <<104, 105, 104, 105, 104>>

\* A gzip member holding DynamicText in one final block of dynamic Huffman
\* codes: two-bit codes for "h", "i", end-of-block and the match length 3, a
\* one-bit code for the distance 2; the block is "h", "i", a match of length
\* 3 at distance 2, end-of-block.
GzipDynamic ==
  <<31, 139, 8, 0, 0, 0, 0, 0, 0, 255>>
    \o <<13, 193, 1, 13, 0, 0, 0, 64, 176, 186, 244, 47, 192, 142, 11>>
    \o GzipTrailer(DynamicText)

----------------------------------------------------------------------------
\* The state.  Calls are the ServeHTTP calls the server may have in flight;
\* every handler local is a function of the call.

Calls == {1, 2}

VARIABLES
  flags,         \* newProxyFromFlags: the command line, its locals and its position
  params,        \* params[c]: the Params of the Proxy that serves call c
  provider,      \* the Provider shared by every call
  invoked,       \* invoked[c]: what call c has invoked on the Provider and its client, in order
  heap,          \* http.Header maps by reference; call c's inbound map is heap[c]
  req,           \* req[c]: the inbound *http.Request
  upstream,      \* upstream[c]: what Client().Do will meet for call c
  pc,            \* pc[c]: the handler's position
  completeFlag,
  logFlag,
  logStrBuilder,
  buf,
  req1,          \* the outgoing request
  response,      \* the *http.Response of Client().Do
  defers,        \* defers[c]: the deferred calls registered so far, oldest first
  rw,            \* rw[c]: the inbound ResponseWriter: its header map and the calls made on it
  open,          \* open[c]: the readers acquired and the Close calls made on them
  stdout         \* the blocks written to the process's standard output, in order

vars == <<flags, params, provider, invoked, heap, req, upstream, pc, completeFlag,
          logFlag, logStrBuilder, buf, req1, response, defers, rw, open, stdout>>

----------------------------------------------------------------------------
\* The inputs Init draws.

Localhost == <<"l", "o", "c", "a", "l", "h", "o", "s", "t">>
Example == <<"e", "x", ".", "c", "o", "m">>

Remotes ==
  { Localhost \o <<":", "8", "0">>,
    <<"1", "2", "7", ".", "0", ".", "0", ".", "1", ":", "8", "0">>,
    <<"[", ":", ":", "1", "]", ":", "8", "0">>,
    <<":", ":", "1", ":", "8", "0">>,
    Localhost,
    Localhost \o <<":">>,
    Localhost \o <<":", "x">>,
    Example \o <<":", "4", "4", "3">>,
    <<"e", "x", " ", "c", "o", "m", ":", "4", "4", "3">>,
    <<"u", "@">> \o Example \o <<":", "4", "4", "3">>,
    <<"e", "x", "%", "4", "1", ":", "4", "4", "3">> }

Whenlogs == {LogWhenOnError, LogWhenOnNon200, LogWhenAlways}
Whatlogs == {LogWhatBasic, LogWhatDetailed}

ParamsSet ==
  { [Remote |-> r, Whenlog |-> wn, Whatlog |-> wt] :
      r \in Remotes, wn \in Whenlogs, wt \in Whatlogs }

\* The text bodies: the prefixes of "hi!..." up to MaxBodyLen bytes.
Text == <<104, 105, 33, 63, 46>>
PlainBodies == { SubSeq(Text, 1, n) : n \in 0..MaxBodyLen }

\* Upstream bodies: text, gzip members of text (stored), two members in a
\* row, members whose block is Huffman-coded, and gzip members damaged in the
\* magic number, the block type and the CRC.
GzipBodies == { GzipStored(t) : t \in PlainBodies }
HuffmanBodies == { GzipFixed(SubSeq(Text, 1, MaxBodyLen)), GzipDynamic }
DamagedBodies ==
  LET g == GzipStored(SubSeq(Text, 1, MaxBodyLen))
  IN  { [g EXCEPT ![1] = 30], [g EXCEPT ![11] = 7], [g EXCEPT ![Len(g) - 7] = (@ + 1) % 256] }
UpstreamBodies ==
  PlainBodies \cup GzipBodies \cup HuffmanBodies \cup DamagedBodies
    \cup { GzipStored(SubSeq(Text, 1, 1)) \o GzipStored(SubSeq(Text, 2, MaxBodyLen)) }

\* The values of the upstream Content-Encoding header field (none: absent).
ContentEncodings == { <<>>, <<"gzip">>, <<"GZIP">> }

UpstreamStatuses == {200, 404, 502}

\* What the upstream does: a transport error, or a response whose body is
\* full, of which the connection delivers the first cut bytes; cut < Len(full)
\* is a body whose read fails part-way: before its last byte, or after its
\* first; a Huffman-coded member fails inside its block, two bytes after the
\* ten of the header.  The damaged bodies arrive whole.
Cuts(full) ==
  IF full \in DamagedBodies THEN {Len(full)}
  ELSE IF full \in HuffmanBodies THEN {Len(full), 12}
  ELSE {Len(full), Len(full) - 1, 1} \cap (0..Len(full))

\* The Content-Encoding values a body is sent with: the Huffman-coded
\* members come declared as gzip.
Encodings(full) == IF full \in HuffmanBodies THEN { <<"gzip">> } ELSE ContentEncodings

Upstreams ==
  { [err |-> TRUE] }
    \cup UNION { { [err |-> FALSE, StatusCode |-> s, ContentEncoding |-> ce,
                    full |-> b, cut |-> k] :
                     s \in UpstreamStatuses, ce \in Encodings(b), k \in Cuts(b) } :
                 b \in UpstreamBodies }

\* The inbound request the server hands to the handler for a request line
\* with this method and target: its URL is what url.ParseRequestURI makes of
\* the target.  The header map of the request of call c is heap[c].
Inbound(method, target, body, c) ==
  [Method |-> method, URL |-> ParseRequestURI(target).url, Body |-> body,
   ContentLength |-> Len(body), Header |-> c]

\* Inbound requests: a GET without body and a POST with a body, for /foo.
InboundRequests(c) ==
  LET target == <<"/", "f", "o", "o">>
  IN  { Inbound(MethodGet, target, <<>>, c),
        Inbound(MethodPost, target, SubSeq(Text, 1, MaxBodyLen), c) }

\* Other request targets a client can send: an escaped path with a query, a
\* path with an escaped slash, an empty query, a "#" with a malformed escape
\* after it, the asterisk, an absolute URL with user information, a URL with
\* a scheme and no "/" after it, and a relative path.
VariedTargets ==
  { <<"/", "a", "%", "2", "0", "b", "?", "x", "=", "1">>,
    <<"/", "a", "%", "2", "F", "b">>,
    <<"/", "f", "o", "o", "?">>,
    <<"/", "a", "?", "x", "#", "%", "z", "z">>,
    <<"*">>,
    <<"h", "t", "t", "p", ":", "/", "/", "u", "%", "4", "1", ":", "p", "@", "o", "/", "x">>,
    <<"h", "t", "t", "p", ":", "f", "o", "o">>,
    <<"f", "o", "o">> }

\* The GET requests for them that reach the handler: the server answers a
\* target that url.ParseRequestURI refuses itself.
VariedRequests(c) ==
  { Inbound(MethodGet, t, <<>>, c) : t \in { t \in VariedTargets : ~ParseRequestURI(t).err } }

\* Requests the server never delivers and a caller of the exported
\* ServeHTTP can hand in: one with a method that is no token ("G T") and
\* one with the empty method, both for /foo.
HandBuiltRequests(c) ==
  { Inbound(m, <<"/", "f", "o", "o">>, <<>>, c) : m \in { <<"G", " ", "T">>, <<>> } }

\* The Remotes and the upstream outcomes the varied targets are drawn with.
VariedRemotes == { Localhost, Localhost \o <<":", "8", "0">> }
VariedUpstreams ==
  { u \in Upstreams :
      \/ u.err
      \/ /\ u.StatusCode = 200 /\ u.ContentEncoding = <<>>
         /\ u.full = SubSeq(Text, 1, MaxBodyLen) /\ u.cut = Len(u.full) }

\* http.Header.Get: the first value of the field, "" when it has none.
HeaderGet(h, name) == IF h[name] = <<>> THEN "" ELSE h[name][1]

----------------------------------------------------------------------------
\* The Provider.  Its implementations are outside the engine; the one bound
\* here attaches a static credential, as basic authentication does.

Modify(prov, p, header) == [header EXCEPT !["Authorization"] = <<prov.credential>>]

\* Client().Do(r): the transport error or the response the upstream gives.
\* http.Transport refuses a request whose URL has no host ("http: no Host in
\* request URL") before it contacts anything.
Do(u, r) ==
  IF r.URL.Host = <<>> THEN [err |-> TRUE]
  ELSE IF u.err THEN [err |-> TRUE]
  ELSE [err |-> FALSE,
        response |-> [StatusCode |-> u.StatusCode,
                      Header |-> [NoHeader EXCEPT !["Content-Encoding"] = u.ContentEncoding],
                      Body |-> [data |-> SubSeq(u.full, 1, u.cut),
                                fails |-> u.cut < Len(u.full)]]]

----------------------------------------------------------------------------
\* Helpers of the handler.

\* The byte-wise order of the Whatlog values a Params can hold: the two
\* newProxyFromFlags admits, and the zero value of the field.
WhatlogOrder(w) == CASE w = "" -> 0 [] w = LogWhatBasic -> 1 [] w = LogWhatDetailed -> 2

\* The comparison turned around: params.Whatlog <= LogWhatDetailed.
IsDetailedTurned(p) == WhatlogOrder(p.Whatlog) <= WhatlogOrder(LogWhatDetailed)

\* params.Whatlog >= LogWhatDetailed
IsDetailed(p) == WhatlogOrder(p.Whatlog) >= WhatlogOrder(LogWhatDetailed)

\* One WriteString on the log builder.
LogEntry(kind, args) == [kind |-> kind, args |-> args]

\* The scheme of the rewritten target.
TargetScheme(remote) ==
  IF isLoopbackAddr(remote) THEN <<"h", "t", "t", "p">> ELSE <<"h", "t", "t", "p", "s">>

\* A test of the encoding that ignores case.
IsGzipAnyCase(resp) == HeaderGet(resp.Header, "Content-Encoding") \in {"gzip", "GZIP"}

\* Whether the upstream body is passed through gzip.
IsGzip(resp) == HeaderGet(resp.Header, "Content-Encoding") = "gzip"

\* A handler that copies the upstream header set to the caller.
ResponseHeaderCopied(resp) == resp.Header

\* The header fields the handler sets on the inbound ResponseWriter before
\* WriteHeader: none.
ResponseHeader(resp) == NoHeader

\* onError read as its name suggests: a completed 4xx/5xx is still logged.
SuppressLogBelow400(p, status) ==
  \/ p.Whenlog = LogWhenOnError /\ status < 400
  \/ p.Whenlog = LogWhenOnNon200 /\ status = StatusOK

\* Whether the log is suppressed for a completed request with this status.
SuppressLog(p, status) ==
  \/ p.Whenlog = LogWhenOnError
  \/ p.Whenlog = LogWhenOnNon200 /\ status = StatusOK

\* One invocation of the Provider (Modify) or of its client (Do) with a
\* request whose header map is heap[header] and holds fields at that moment.
Invocation(op, header, fields) == [op |-> op, header |-> header, fields |-> fields]

\* The calls made on a ResponseWriter.
WriteHeaderCall(code) ==
  [op |-> "WriteHeader", code |-> code, data |-> <<>>, err |-> FALSE, panicked |-> FALSE]
WriteCall(data, err) ==
  [op |-> "Write", code |-> 0, data |-> data, err |-> err, panicked |-> FALSE]
\* A call made to rw that ended in a panic instead of returning.
Panicked(call) == [call EXCEPT !.panicked = TRUE]

----------------------------------------------------------------------------
\* Proxy.ServeHTTP, one action per step of call c.

\* An entry that starts with logging off unless the policy is always.
EnterLogOff(c) ==
  /\ pc[c] = "entry"
  /\ completeFlag' = [completeFlag EXCEPT ![c] = FALSE]
  /\ logFlag' = [logFlag EXCEPT ![c] = params[c].Whenlog = LogWhenAlways]
  /\ logStrBuilder' = [logStrBuilder EXCEPT ![c] = <<>>]
  /\ defers' = [defers EXCEPT ![c] = <<"guard502", "printLog">>]
  /\ pc' = [pc EXCEPT ![c] = "readBody"]
  /\ UNCHANGED <<flags, params, provider, invoked, heap, req, upstream, buf, req1,
                 response, rw, open, stdout>>

\* completeFlag, logFlag, the log builder and the two deferred guards.
Enter(c) ==
  /\ pc[c] = "entry"
  /\ completeFlag' = [completeFlag EXCEPT ![c] = FALSE]
  /\ logFlag' = [logFlag EXCEPT ![c] = TRUE]
  /\ logStrBuilder' = [logStrBuilder EXCEPT ![c] = <<>>]
  /\ defers' = [defers EXCEPT ![c] = <<"guard502", "printLog">>]
  /\ pc' = [pc EXCEPT ![c] = "readBody"]
  /\ UNCHANGED <<flags, params, provider, invoked, heap, req, upstream, buf, req1,
                 response, rw, open, stdout>>

\* buf.ReadFrom(req.Body)
ReadBody(c) ==
  /\ pc[c] = "readBody"
  /\ buf' = [buf EXCEPT ![c] = req[c].Body]
  /\ pc' = [pc EXCEPT ![c] = "rewrite"]
  /\ UNCHANGED <<flags, params, provider, invoked, heap, req, upstream, completeFlag,
                 logFlag, logStrBuilder, req1, response, defers, rw, open, stdout>>

\* req.URL.Host, req.URL.Scheme
RewriteTarget(c) ==
  /\ pc[c] = "rewrite"
  /\ req' = [req EXCEPT ![c].URL.Host = params[c].Remote,
                        ![c].URL.Scheme = TargetScheme(params[c].Remote)]
  /\ pc' = [pc EXCEPT ![c] = "logRequest"]
  /\ UNCHANGED <<flags, params, provider, invoked, heap, upstream, completeFlag, logFlag,
                 logStrBuilder, buf, req1, response, defers, rw, open, stdout>>

\* A request logger that reads the body out of the buffer when it logs it.
LogRequestDraining(c) ==
  /\ pc[c] = "logRequest"
  /\ logStrBuilder' =
       [logStrBuilder EXCEPT ![c] =
          @ \o <<LogEntry("Requesting:", <<req[c].Method, URLString(req[c].URL)>>)>>
            \o (IF IsDetailed(params[c]) THEN <<LogEntry("body", <<buf[c]>>)>> ELSE <<>>)]
  /\ buf' = [buf EXCEPT ![c] = IF IsDetailed(params[c]) THEN <<>> ELSE @]
  /\ pc' = [pc EXCEPT ![c] = "build"]
  /\ UNCHANGED <<flags, params, provider, invoked, heap, req, upstream, completeFlag,
                 logFlag, req1, response, defers, rw, open, stdout>>

\* A request logger that also prints what it logs at once.
LogRequestPrinting(c) ==
  /\ pc[c] = "logRequest"
  /\ logStrBuilder' =
       [logStrBuilder EXCEPT ![c] =
          @ \o <<LogEntry("Requesting:", <<req[c].Method, URLString(req[c].URL)>>)>>
            \o (IF IsDetailed(params[c]) THEN <<LogEntry("body", <<buf[c]>>)>> ELSE <<>>)]
  /\ stdout' = Append(stdout, [call |-> c, text |-> logStrBuilder'[c]])
  /\ pc' = [pc EXCEPT ![c] = "build"]
  /\ UNCHANGED <<flags, params, provider, invoked, heap, req, upstream, completeFlag,
                 logFlag, buf, req1, response, defers, rw, open>>

\* "Requesting:" and, when detailed, the request body.
LogRequest(c) ==
  /\ pc[c] = "logRequest"
  /\ logStrBuilder' =
       [logStrBuilder EXCEPT ![c] =
          @ \o <<LogEntry("Requesting:", <<req[c].Method, URLString(req[c].URL)>>)>>
            \o (IF IsDetailed(params[c]) THEN <<LogEntry("body", <<buf[c]>>)>> ELSE <<>>)]
  /\ pc' = [pc EXCEPT ![c] = "build"]
  /\ UNCHANGED <<flags, params, provider, invoked, heap, req, upstream, completeFlag,
                 logFlag, buf, req1, response, defers, rw, open, stdout>>

\* A builder that hands every outgoing request one header map, that of
\* call 1, as a handler that kept the map in a field of the Proxy would.
BuildRequestSharedHeader(c) ==
  /\ pc[c] = "build"
  /\ LET r == NewRequest(req[c].Method, URLString(req[c].URL), buf[c])
     IN  IF r.err
         THEN /\ logStrBuilder' =
                   [logStrBuilder EXCEPT ![c] =
                      @ \o <<LogEntry("Error when make transport request:", <<>>)>>]
              /\ pc' = [pc EXCEPT ![c] = "return"]
              /\ UNCHANGED req1
         ELSE /\ req1' = [req1 EXCEPT ![c] =
                            [r.req EXCEPT !.ContentLength = req[c].ContentLength,
                                          !.Header = 1,
                                          !.Method = req[c].Method]]
              /\ pc' = [pc EXCEPT ![c] = "modify"]
              /\ UNCHANGED logStrBuilder
  /\ UNCHANGED <<flags, params, provider, invoked, heap, req, upstream, completeFlag,
                 logFlag, buf, response, defers, rw, open, stdout>>

\* http.NewRequest and the three fields copied from the inbound request.
BuildRequest(c) ==
  /\ pc[c] = "build"
  /\ LET r == NewRequest(req[c].Method, URLString(req[c].URL), buf[c])
     IN  IF r.err
         THEN /\ logStrBuilder' =
                   [logStrBuilder EXCEPT ![c] =
                      @ \o <<LogEntry("Error when make transport request:", <<>>)>>]
              /\ pc' = [pc EXCEPT ![c] = "return"]
              /\ UNCHANGED req1
         ELSE /\ req1' = [req1 EXCEPT ![c] =
                            [r.req EXCEPT !.ContentLength = req[c].ContentLength,
                                          !.Header = req[c].Header,
                                          !.Method = req[c].Method]]
              /\ pc' = [pc EXCEPT ![c] = "modify"]
              /\ UNCHANGED logStrBuilder
  /\ UNCHANGED <<flags, params, provider, invoked, heap, req, upstream, completeFlag,
                 logFlag, buf, response, defers, rw, open, stdout>>

\* A handler that goes on to the transport call without the Provider.
CallModifyOmitted(c) ==
  /\ pc[c] = "modify"
  /\ pc' = [pc EXCEPT ![c] = "send"]
  /\ UNCHANGED <<flags, params, provider, invoked, heap, req, upstream, completeFlag, logFlag,
                 logStrBuilder, buf, req1, response, defers, rw, open, stdout>>

\* p.Provider.Modify(params, req1): the header map is the inbound one.
CallModify(c) ==
  /\ pc[c] = "modify"
  /\ heap' = [heap EXCEPT ![req1[c].Header] = Modify(provider, params[c], @)]
  /\ invoked' = [invoked EXCEPT ![c] = Append(@, Invocation("Modify", req1[c].Header, heap[req1[c].Header]))]
  /\ pc' = [pc EXCEPT ![c] = "send"]
  /\ UNCHANGED <<flags, params, provider, req, upstream, completeFlag, logFlag,
                 logStrBuilder, buf, req1, response, defers, rw, open, stdout>>

\* A transport step that marks the call complete as soon as a response is in.
DoRequestMarksComplete(c) ==
  /\ pc[c] = "send"
  /\ invoked' = [invoked EXCEPT ![c] = Append(@, Invocation("Do", req1[c].Header, heap[req1[c].Header]))]
  /\ LET r == Do(upstream[c], req1[c])
     IN  IF r.err
         THEN /\ logStrBuilder' =
                   [logStrBuilder EXCEPT ![c] =
                      @ \o <<LogEntry("Error when send the transport request:", <<>>)>>]
              /\ pc' = [pc EXCEPT ![c] = "return"]
              /\ UNCHANGED <<response, defers, open, buf, completeFlag>>
         ELSE /\ response' = [response EXCEPT ![c] = r.response]
              /\ defers' = [defers EXCEPT ![c] = Append(@, "closeBody")]
              /\ open' = [open EXCEPT ![c].body = TRUE]
              /\ buf' = [buf EXCEPT ![c] = <<>>]
              /\ completeFlag' = [completeFlag EXCEPT ![c] = TRUE]
              /\ pc' = [pc EXCEPT ![c] = "decode"]
              /\ UNCHANGED logStrBuilder
  /\ UNCHANGED <<flags, params, provider, heap, req, upstream, logFlag, req1, rw, stdout>>

\* A transport step that tries a second time after a first failure.
DoRequestRetry(c) ==
  /\ pc[c] = "send"
  /\ invoked' = [invoked EXCEPT ![c] = Append(@, Invocation("Do", req1[c].Header, heap[req1[c].Header]))]
  /\ LET r == Do(upstream[c], req1[c])
     IN  IF r.err
         THEN /\ logStrBuilder' =
                   [logStrBuilder EXCEPT ![c] =
                      @ \o <<LogEntry("Error when send the transport request:", <<>>)>>]
              /\ pc' = [pc EXCEPT ![c] = IF Len(invoked[c]) < 2 THEN "send" ELSE "return"]
              /\ UNCHANGED <<response, defers, open, buf>>
         ELSE /\ response' = [response EXCEPT ![c] = r.response]
              /\ defers' = [defers EXCEPT ![c] = Append(@, "closeBody")]
              /\ open' = [open EXCEPT ![c].body = TRUE]
              /\ buf' = [buf EXCEPT ![c] = <<>>]
              /\ pc' = [pc EXCEPT ![c] = "decode"]
              /\ UNCHANGED logStrBuilder
  /\ UNCHANGED <<flags, params, provider, heap, req, upstream, completeFlag,
                 logFlag, req1, rw, stdout>>

\* p.Provider.Client().Do(req1), defer response.Body.Close(), a new buf.
DoRequest(c) ==
  /\ pc[c] = "send"
  /\ invoked' = [invoked EXCEPT ![c] = Append(@, Invocation("Do", req1[c].Header, heap[req1[c].Header]))]
  /\ LET r == Do(upstream[c], req1[c])
     IN  IF r.err
         THEN /\ logStrBuilder' =
                   [logStrBuilder EXCEPT ![c] =
                      @ \o <<LogEntry("Error when send the transport request:", <<>>)>>]
              /\ pc' = [pc EXCEPT ![c] = "return"]
              /\ UNCHANGED <<response, defers, open, buf>>
         ELSE /\ response' = [response EXCEPT ![c] = r.response]
              /\ defers' = [defers EXCEPT ![c] = Append(@, "closeBody")]
              /\ open' = [open EXCEPT ![c].body = TRUE]
              /\ buf' = [buf EXCEPT ![c] = <<>>]
              /\ pc' = [pc EXCEPT ![c] = "decode"]
              /\ UNCHANGED logStrBuilder
  /\ UNCHANGED <<flags, params, provider, heap, req, upstream, completeFlag,
                 logFlag, req1, rw, stdout>>

\* A decoder that defers reader.Close only once ReadAll has succeeded.
ReadResponseLateDefer(c) ==
  /\ pc[c] = "decode"
  /\ IF IsGzip(response[c])
     THEN LET g == Gunzip(response[c].Body)
          IN  IF g.newReaderErr
              THEN /\ logStrBuilder' =
                        [logStrBuilder EXCEPT ![c] =
                           @ \o <<LogEntry("Error while decoding gzip data:", <<>>)>>]
                   /\ pc' = [pc EXCEPT ![c] = "return"]
                   /\ UNCHANGED <<buf, defers, open>>
              ELSE /\ open' = [open EXCEPT ![c].reader = TRUE]
                   /\ IF g.readErr
                      THEN /\ logStrBuilder' =
                                [logStrBuilder EXCEPT ![c] =
                                   @ \o <<LogEntry("Error while reading gzip data:", <<>>)>>]
                           /\ pc' = [pc EXCEPT ![c] = "return"]
                           /\ UNCHANGED <<buf, defers>>
                      ELSE /\ defers' = [defers EXCEPT ![c] = Append(@, "closeReader")]
                           /\ buf' = [buf EXCEPT ![c] = @ \o g.data]
                           /\ pc' = [pc EXCEPT ![c] = "logResponse"]
                           /\ UNCHANGED logStrBuilder
     ELSE /\ buf' = [buf EXCEPT ![c] = @ \o ReadFrom(response[c].Body)]
          /\ pc' = [pc EXCEPT ![c] = "logResponse"]
          /\ UNCHANGED <<logStrBuilder, defers, open>>
  /\ UNCHANGED <<flags, params, provider, invoked, heap, req, upstream, completeFlag,
                 logFlag, req1, response, rw, stdout>>

\* The Content-Encoding switch: gzip.NewReader and ioutil.ReadAll, or
\* buf.ReadFrom(response.Body).
ReadResponse(c) ==
  /\ pc[c] = "decode"
  /\ IF IsGzip(response[c])
     THEN LET g == Gunzip(response[c].Body)
          IN  IF g.newReaderErr
              THEN /\ logStrBuilder' =
                        [logStrBuilder EXCEPT ![c] =
                           @ \o <<LogEntry("Error while decoding gzip data:", <<>>)>>]
                   /\ pc' = [pc EXCEPT ![c] = "return"]
                   /\ UNCHANGED <<buf, defers, open>>
              ELSE /\ defers' = [defers EXCEPT ![c] = Append(@, "closeReader")]
                   /\ open' = [open EXCEPT ![c].reader = TRUE]
                   /\ IF g.readErr
                      THEN /\ logStrBuilder' =
                                [logStrBuilder EXCEPT ![c] =
                                   @ \o <<LogEntry("Error while reading gzip data:", <<>>)>>]
                           /\ pc' = [pc EXCEPT ![c] = "return"]
                           /\ UNCHANGED buf
                      ELSE /\ buf' = [buf EXCEPT ![c] = @ \o g.data]
                           /\ pc' = [pc EXCEPT ![c] = "logResponse"]
                           /\ UNCHANGED logStrBuilder
     ELSE /\ buf' = [buf EXCEPT ![c] = @ \o ReadFrom(response[c].Body)]
          /\ pc' = [pc EXCEPT ![c] = "logResponse"]
          /\ UNCHANGED <<logStrBuilder, defers, open>>
  /\ UNCHANGED <<flags, params, provider, invoked, heap, req, upstream, completeFlag,
                 logFlag, req1, response, rw, stdout>>

\* "Response Status Code:" and, when detailed, the response body.
LogResponse(c) ==
  /\ pc[c] = "logResponse"
  /\ logStrBuilder' =
       [logStrBuilder EXCEPT ![c] =
          @ \o <<LogEntry("Response Status Code:", <<response[c].StatusCode>>)>>
            \o (IF IsDetailed(params[c]) THEN <<LogEntry("body", <<buf[c]>>)>> ELSE <<>>)]
  /\ pc' = [pc EXCEPT ![c] = "write"]
  /\ UNCHANGED <<flags, params, provider, invoked, heap, req, upstream, completeFlag,
                 logFlag, buf, req1, response, defers, rw, open, stdout>>

\* rw.WriteHeader(response.StatusCode); rw.Write(buf.Bytes()).  Write fails
\* when the inbound connection is gone; the handler drops its error.
WriteResponse(c) ==
  /\ pc[c] = "write"
  /\ \E failed \in BOOLEAN :
       rw' = [rw EXCEPT ![c].header = ResponseHeader(response[c]),
                        ![c].calls = @ \o <<WriteHeaderCall(response[c].StatusCode),
                                            WriteCall(buf[c], failed)>>]
  /\ pc' = [pc EXCEPT ![c] = "complete"]
  /\ UNCHANGED <<flags, params, provider, invoked, heap, req, upstream, completeFlag,
                 logFlag, logStrBuilder, buf, req1, response, defers, open, stdout>>

\* completeFlag = true
MarkComplete(c) ==
  /\ pc[c] = "complete"
  /\ completeFlag' = [completeFlag EXCEPT ![c] = TRUE]
  /\ pc' = [pc EXCEPT ![c] = "policy"]
  /\ UNCHANGED <<flags, params, provider, invoked, heap, req, upstream, logFlag,
                 logStrBuilder, buf, req1, response, defers, rw, open, stdout>>

\* A policy that counts a failed Write as an error worth logging.
EvalLogPolicyWriteError(c) ==
  /\ pc[c] = "policy"
  /\ logFlag' = [logFlag EXCEPT ![c] =
                   IF /\ SuppressLog(params[c], response[c].StatusCode)
                      /\ ~rw[c].calls[Len(rw[c].calls)].err
                   THEN FALSE ELSE @]
  /\ pc' = [pc EXCEPT ![c] = "return"]
  /\ UNCHANGED <<flags, params, provider, invoked, heap, req, upstream, completeFlag,
                 logStrBuilder, buf, req1, response, defers, rw, open, stdout>>

\* The two Whenlog tests that clear logFlag.
EvalLogPolicy(c) ==
  /\ pc[c] = "policy"
  /\ logFlag' = [logFlag EXCEPT ![c] =
                   IF SuppressLog(params[c], response[c].StatusCode) THEN FALSE ELSE @]
  /\ pc' = [pc EXCEPT ![c] = "return"]
  /\ UNCHANGED <<flags, params, provider, invoked, heap, req, upstream, completeFlag,
                 logStrBuilder, buf, req1, response, defers, rw, open, stdout>>

----------------------------------------------------------------------------
\* The deferred calls, run last registered first once the body has returned
\* or panicked.

Top(c) == defers[c][Len(defers[c])]
Pop(c) == [defers EXCEPT ![c] = SubSeq(@, 1, Len(@) - 1)]
Deferred(c, name) == pc[c] \in {"return", "panic"} /\ defers[c] # <<>> /\ Top(c) = name

\* defer reader.Close()
DeferCloseReader(c) ==
  /\ Deferred(c, "closeReader")
  /\ open' = [open EXCEPT ![c].reader = FALSE, ![c].readerCloses = @ + 1]
  /\ defers' = Pop(c)
  /\ UNCHANGED <<flags, params, provider, invoked, heap, req, upstream, pc, completeFlag,
                 logFlag, logStrBuilder, buf, req1, response, rw, stdout>>

\* defer response.Body.Close()
DeferCloseBody(c) ==
  /\ Deferred(c, "closeBody")
  /\ open' = [open EXCEPT ![c].body = FALSE, ![c].bodyCloses = @ + 1]
  /\ defers' = Pop(c)
  /\ UNCHANGED <<flags, params, provider, invoked, heap, req, upstream, pc, completeFlag,
                 logFlag, logStrBuilder, buf, req1, response, rw, stdout>>

\* A printer that writes the builder to the output a line at a time, one
\* Println for each.
DeferPrintLogByLine(c) ==
  /\ Deferred(c, "printLog")
  /\ LET n == Len(SelectSeq(stdout, LAMBDA b : b.call = c))
     IN  IF logFlag[c] /\ n < Len(logStrBuilder[c])
         THEN /\ stdout' = Append(stdout, [call |-> c, text |-> <<logStrBuilder[c][n + 1]>>])
              /\ UNCHANGED defers
         ELSE /\ defers' = Pop(c)
              /\ UNCHANGED stdout
  /\ UNCHANGED <<flags, params, provider, invoked, heap, req, upstream, pc, completeFlag,
                 logFlag, logStrBuilder, buf, req1, response, rw, open>>

\* The deferred log printer: fmt.Println of the builder when logFlag is set.
DeferPrintLog(c) ==
  /\ Deferred(c, "printLog")
  /\ stdout' = IF logFlag[c]
               THEN Append(stdout, [call |-> c, text |-> logStrBuilder[c]])
               ELSE stdout
  /\ defers' = Pop(c)
  /\ UNCHANGED <<flags, params, provider, invoked, heap, req, upstream, pc, completeFlag,
                 logFlag, logStrBuilder, buf, req1, response, rw, open>>

\* A guard that does not look at completeFlag.
DeferGuard502Always(c) ==
  /\ Deferred(c, "guard502")
  /\ rw' = [rw EXCEPT ![c].calls = Append(@, WriteHeaderCall(StatusBadGateway))]
  /\ defers' = Pop(c)
  /\ UNCHANGED <<flags, params, provider, invoked, heap, req, upstream, pc, completeFlag,
                 logFlag, logStrBuilder, buf, req1, response, open, stdout>>

\* A guard that answers as http.Error does, with a text after the status.
DeferGuard502WithText(c) ==
  /\ Deferred(c, "guard502")
  /\ rw' = IF ~completeFlag[c]
           THEN [rw EXCEPT ![c].calls = @ \o <<WriteHeaderCall(StatusBadGateway),
                                               WriteCall(<<66, 97, 100>>, FALSE)>>]
           ELSE rw
  /\ defers' = Pop(c)
  /\ UNCHANGED <<flags, params, provider, invoked, heap, req, upstream, pc, completeFlag,
                 logFlag, logStrBuilder, buf, req1, response, open, stdout>>

\* The deferred guard: WriteHeader(502) unless completeFlag is set.
DeferGuard502(c) ==
  /\ Deferred(c, "guard502")
  /\ rw' = IF ~completeFlag[c]
           THEN [rw EXCEPT ![c].calls = Append(@, WriteHeaderCall(StatusBadGateway))]
           ELSE rw
  /\ defers' = Pop(c)
  /\ UNCHANGED <<flags, params, provider, invoked, heap, req, upstream, pc, completeFlag,
                 logFlag, logStrBuilder, buf, req1, response, open, stdout>>

\* The handler has exited.
Exit(c) ==
  /\ pc[c] = "return"
  /\ defers[c] = <<>>
  /\ pc' = [pc EXCEPT ![c] = "done"]
  /\ UNCHANGED <<flags, params, provider, invoked, heap, req, upstream, completeFlag,
                 logFlag, logStrBuilder, buf, req1, response, defers, rw, open, stdout>>

----------------------------------------------------------------------------
\* Panics.  A step that calls into code that can panic (the body read, the
\* Provider, its client, the decoder, the ResponseWriter) may end the handler
\* body there: the deferred calls registered so far run, then the panic goes
\* on to the server.  A deferred call may panic as well: those registered
\* before it still run, and the handler ends in a panic even when its body
\* had returned.

PanicSites == {"readBody", "decode"}

\* The step at pc[c] panics before it has changed anything the model
\* follows: the first Read of the body panics (at "decode" inside
\* buf.ReadFrom or inside gzip.NewReader, which reads the header).
PanicInStep(c) ==
  /\ pc[c] \in PanicSites
  /\ pc' = [pc EXCEPT ![c] = "panic"]
  /\ UNCHANGED <<flags, params, provider, invoked, heap, req, upstream, completeFlag,
                 logFlag, logStrBuilder, buf, req1, response, defers, rw, open, stdout>>

\* p.Provider.Modify(params, req1) panics: the Provider has been invoked,
\* and has written the header map before the panic or has not.
PanicInModify(c) ==
  /\ pc[c] = "modify"
  /\ invoked' = [invoked EXCEPT ![c] = Append(@, Invocation("Modify", req1[c].Header, heap[req1[c].Header]))]
  /\ \E written \in BOOLEAN :
       heap' = IF written
               THEN [heap EXCEPT ![req1[c].Header] = Modify(provider, params[c], @)]
               ELSE heap
  /\ pc' = [pc EXCEPT ![c] = "panic"]
  /\ UNCHANGED <<flags, params, provider, req, upstream, completeFlag, logFlag,
                 logStrBuilder, buf, req1, response, defers, rw, open, stdout>>

\* p.Provider.Client() panics: Modify has returned, Do is never invoked.
PanicInClient(c) ==
  /\ pc[c] = "send"
  /\ pc' = [pc EXCEPT ![c] = "panic"]
  /\ UNCHANGED <<flags, params, provider, invoked, heap, req, upstream, completeFlag,
                 logFlag, logStrBuilder, buf, req1, response, defers, rw, open, stdout>>

\* Client().Do(req1) panics: the client has been invoked, no response is
\* returned.
PanicInDo(c) ==
  /\ pc[c] = "send"
  /\ invoked' = [invoked EXCEPT ![c] = Append(@, Invocation("Do", req1[c].Header, heap[req1[c].Header]))]
  /\ pc' = [pc EXCEPT ![c] = "panic"]
  /\ UNCHANGED <<flags, params, provider, heap, req, upstream, completeFlag, logFlag,
                 logStrBuilder, buf, req1, response, defers, rw, open, stdout>>

\* buf.ReadFrom(req.Body) or buf.ReadFrom(response.Body) panics in a Read
\* that follows the first: buf holds the bytes read before it.
PanicInRead(c) ==
  /\ \/ pc[c] = "readBody"
     \/ pc[c] = "decode" /\ ~IsGzip(response[c])
  /\ \E n \in 1..Len(IF pc[c] = "readBody" THEN req[c].Body ELSE ReadFrom(response[c].Body)) :
       buf' = [buf EXCEPT ![c] =
                 @ \o SubSeq(IF pc[c] = "readBody" THEN req[c].Body
                             ELSE ReadFrom(response[c].Body), 1, n)]
  /\ pc' = [pc EXCEPT ![c] = "panic"]
  /\ UNCHANGED <<flags, params, provider, invoked, heap, req, upstream, completeFlag,
                 logFlag, logStrBuilder, req1, response, defers, rw, open, stdout>>

\* gzip.NewReader has returned a reader, reader.Close is deferred, and
\* ioutil.ReadAll(reader) or buf.Write(data) panics.
PanicInReadAll(c) ==
  /\ pc[c] = "decode"
  /\ IsGzip(response[c])
  /\ GzipHeaderEnd(response[c].Body.data, 1) # 0
  /\ defers' = [defers EXCEPT ![c] = Append(@, "closeReader")]
  /\ open' = [open EXCEPT ![c].reader = TRUE]
  /\ pc' = [pc EXCEPT ![c] = "panic"]
  /\ UNCHANGED <<flags, params, provider, invoked, heap, req, upstream, completeFlag,
                 logFlag, logStrBuilder, buf, req1, response, rw, stdout>>

\* rw.WriteHeader(response.StatusCode) is called and panics.
PanicInWriteHeader(c) ==
  /\ pc[c] = "write"
  /\ rw' = [rw EXCEPT ![c].header = ResponseHeader(response[c]),
                      ![c].calls = Append(@, Panicked(WriteHeaderCall(response[c].StatusCode)))]
  /\ pc' = [pc EXCEPT ![c] = "panic"]
  /\ UNCHANGED <<flags, params, provider, invoked, heap, req, upstream, completeFlag,
                 logFlag, logStrBuilder, buf, req1, response, defers, open, stdout>>

\* rw.WriteHeader(response.StatusCode) returns, rw.Write(buf.Bytes()) is
\* called and panics.
PanicInWrite(c) ==
  /\ pc[c] = "write"
  /\ rw' = [rw EXCEPT ![c].header = ResponseHeader(response[c]),
                      ![c].calls = @ \o <<WriteHeaderCall(response[c].StatusCode),
                                          Panicked(WriteCall(buf[c], FALSE))>>]
  /\ pc' = [pc EXCEPT ![c] = "panic"]
  /\ UNCHANGED <<flags, params, provider, invoked, heap, req, upstream, completeFlag,
                 logFlag, logStrBuilder, buf, req1, response, defers, open, stdout>>

\* The deferred reader.Close() is called and panics.
PanicInCloseReader(c) ==
  /\ Deferred(c, "closeReader")
  /\ open' = [open EXCEPT ![c].reader = FALSE, ![c].readerCloses = @ + 1]
  /\ defers' = Pop(c)
  /\ pc' = [pc EXCEPT ![c] = "panic"]
  /\ UNCHANGED <<flags, params, provider, invoked, heap, req, upstream, completeFlag,
                 logFlag, logStrBuilder, buf, req1, response, rw, stdout>>

\* The deferred response.Body.Close() is called and panics.
PanicInCloseBody(c) ==
  /\ Deferred(c, "closeBody")
  /\ open' = [open EXCEPT ![c].body = FALSE, ![c].bodyCloses = @ + 1]
  /\ defers' = Pop(c)
  /\ pc' = [pc EXCEPT ![c] = "panic"]
  /\ UNCHANGED <<flags, params, provider, invoked, heap, req, upstream, completeFlag,
                 logFlag, logStrBuilder, buf, req1, response, rw, stdout>>

\* The deferred guard calls rw.WriteHeader(502), which panics.
PanicInGuard502(c) ==
  /\ Deferred(c, "guard502")
  /\ ~completeFlag[c]
  /\ rw' = [rw EXCEPT ![c].calls = Append(@, Panicked(WriteHeaderCall(StatusBadGateway)))]
  /\ defers' = Pop(c)
  /\ pc' = [pc EXCEPT ![c] = "panic"]
  /\ UNCHANGED <<flags, params, provider, invoked, heap, req, upstream, completeFlag,
                 logFlag, logStrBuilder, buf, req1, response, open, stdout>>

\* The deferred calls have run and the panic leaves ServeHTTP.
Crash(c) ==
  /\ pc[c] = "panic"
  /\ defers[c] = <<>>
  /\ pc' = [pc EXCEPT ![c] = "crashed"]
  /\ UNCHANGED <<flags, params, provider, invoked, heap, req, upstream, completeFlag,
                 logFlag, logStrBuilder, buf, req1, response, defers, rw, open, stdout>>

----------------------------------------------------------------------------
\* newProxyFromFlags (cmd/flags.go).  flags holds the command line (args),
\* the locals the flag package binds, and the position in the function.  Of
\* the Params under construction, Remote, Whenlog and Whatlog live in params
\* (one Params, shared by every call); Method, which the handler never reads,
\* lives in flags.

\* A Proxy that was built without newProxyFromFlags.
NoFlags == [pc |-> "unused"]

\* A flag that is not on the command line.
Omitted == "(omitted)"

\* The value flag.Parse leaves in a string variable.
FlagValue(arg, default) == IF arg = Omitted THEN default ELSE arg

\* The four method names of the -method usage text.
MethodBasicAuth == "basic"
ValidMethods == {"basic", "authcode", "client", "device"}

\* &proxy.Params{}
ZeroParams == [Remote |-> <<>>, Whenlog |-> "", Whatlog |-> ""]

FlagsAt(pos) == flags.pc = pos
FlagsGoto(pos) == flags' = [flags EXCEPT !.pc = pos]

HandlerVars == <<provider, invoked, heap, req, upstream, pc, completeFlag, logFlag,
                 logStrBuilder, buf, req1, response, defers, rw, open, stdout>>

\* flag.Parse: -method and -remote are bound to fields of the Params,
\* -whenlog, -whatlog and -debugmode to locals.
FlagParse ==
  /\ FlagsAt("parse")
  /\ flags' = [flags EXCEPT
       !.Method = FlagValue(flags.args.method, MethodBasicAuth),
       !.whenlogstr = FlagValue(flags.args.whenlog, LogWhenOnError),
       !.whatlogstr = FlagValue(flags.args.whatlog, LogWhatBasic),
       !.debugmode = flags.args.debugmode,
       !.pc = "method"]
  /\ params' = [c \in Calls |->
                  [params[c] EXCEPT !.Remote = FlagValue(flags.args.remote, <<>>)]]
  /\ UNCHANGED HandlerVars

\* switch params.Method
CheckMethod ==
  /\ FlagsAt("method")
  /\ FlagsGoto(IF flags.Method \in ValidMethods THEN "whenlog" ELSE "exit")
  /\ UNCHANGED <<params, HandlerVars>>

\* switch whenlogstr
CheckWhenlog ==
  /\ FlagsAt("whenlog")
  /\ FlagsGoto(IF flags.whenlogstr \in {LogWhenOnError, LogWhenOnNon200, LogWhenAlways}
               THEN "whatlog" ELSE "exit")
  /\ UNCHANGED <<params, HandlerVars>>

\* switch whatlogstr
CheckWhatlog ==
  /\ FlagsAt("whatlog")
  /\ FlagsGoto(IF flags.whatlogstr \in {LogWhatBasic, LogWhatDetailed}
               THEN "debugmode" ELSE "exit")
  /\ UNCHANGED <<params, HandlerVars>>

\* if debugmode { ... }
ApplyDebugMode ==
  /\ FlagsAt("debugmode")
  /\ params' = IF flags.debugmode
               THEN [c \in Calls |->
                       [params[c] EXCEPT !.Whenlog = LogWhenAlways, !.Whatlog = LogWhatDetailed]]
               ELSE params
  /\ FlagsGoto("checkStr")
  /\ UNCHANGED HandlerVars

\* checkStr(params.Local, params.Remote); Local keeps its default.
CheckStr ==
  /\ FlagsAt("checkStr")
  /\ FlagsGoto(IF params[1].Remote = <<>> THEN "exit" ELSE "provider")
  /\ UNCHANGED <<params, HandlerVars>>

\* The provider of the method, after checkStr of the strings it needs, and
\* the return of the Proxy.
SelectProvider ==
  /\ FlagsAt("provider")
  /\ FlagsGoto(IF flags.args.credentials THEN "returned" ELSE "exit")
  /\ UNCHANGED <<params, HandlerVars>>

\* What the upstream does to the request the Proxy serves.
FlagsUpstreams ==
  { u \in Upstreams :
      \/ u.err
      \/ /\ u.ContentEncoding = <<>> /\ u.full = SubSeq(Text, 1, MaxBodyLen)
         /\ u.cut = Len(u.full) /\ u.StatusCode \in {200, 404}
      \/ /\ u.ContentEncoding = <<"gzip">> /\ u.StatusCode = 200
         /\ u.full = GzipStored(SubSeq(Text, 1, MaxBodyLen))
         /\ u.cut = Len(u.full) }

\* The Proxy serves: a request arrives for call 1.
Serve ==
  /\ FlagsAt("returned")
  /\ pc[1] = "idle"
  /\ pc' = [pc EXCEPT ![1] = "entry"]
  /\ \E r \in InboundRequests(1) : req' = [req EXCEPT ![1] = r]
  /\ \E u \in FlagsUpstreams : upstream' = [upstream EXCEPT ![1] = u]
  /\ UNCHANGED <<flags, params, provider, invoked, heap, completeFlag, logFlag,
                 logStrBuilder, buf, req1, response, defers, rw, open, stdout>>

----------------------------------------------------------------------------
\* Specifications.

\* What is the same in every initial state: no handler local is assigned.
InitLocals ==
  /\ provider = [credential |-> "Basic dXNlcjpwdw=="]
  /\ invoked = [c \in Calls |-> <<>>]
  /\ heap = [c \in Calls |-> [NoHeader EXCEPT !["Accept-Encoding"] = <<"gzip">>]]
  /\ completeFlag = [c \in Calls |-> FALSE]
  /\ logFlag = [c \in Calls |-> TRUE]
  /\ logStrBuilder = [c \in Calls |-> <<>>]
  /\ buf = [c \in Calls |-> <<>>]
  /\ req1 = [c \in Calls |-> Nil]
  /\ response = [c \in Calls |-> Nil]
  /\ defers = [c \in Calls |-> <<>>]
  /\ rw = [c \in Calls |-> [header |-> NoHeader, calls |-> <<>>]]
  /\ open = [c \in Calls |->
               [body |-> FALSE, bodyCloses |-> 0, reader |-> FALSE, readerCloses |-> 0]]
  /\ stdout = <<>>

\* One Proxy, one request: call 1 has arrived, no other call is in flight.
\* The request is for /foo, with every Remote and every upstream outcome, or
\* it has one of the varied targets.
Init ==
  /\ InitLocals
  /\ flags = NoFlags
  /\ pc = [c \in Calls |-> IF c = 1 THEN "entry" ELSE "idle"]
  /\ \E p \in ParamsSet, u \in Upstreams :
       /\ params = [c \in Calls |-> p]
       /\ upstream = [c \in Calls |-> IF c = 1 THEN u ELSE Nil]
       /\ \/ \E r \in InboundRequests(1) : req = [c \in Calls |-> IF c = 1 THEN r ELSE Nil]
          \/ /\ p.Remote \in VariedRemotes
             /\ u \in VariedUpstreams
             /\ \E r \in VariedRequests(1) \cup HandBuiltRequests(1) :
                  req = [c \in Calls |-> IF c = 1 THEN r ELSE Nil]

Step(c) ==
  \/ Enter(c)
  \/ ReadBody(c)
  \/ RewriteTarget(c)
  \/ LogRequest(c)
  \/ BuildRequest(c)
  \/ CallModify(c)
  \/ DoRequest(c)
  \/ ReadResponse(c)
  \/ LogResponse(c)
  \/ WriteResponse(c)
  \/ MarkComplete(c)
  \/ EvalLogPolicy(c)
  \/ DeferCloseReader(c)
  \/ DeferCloseBody(c)
  \/ DeferPrintLog(c)
  \/ DeferGuard502(c)
  \/ Exit(c)

Next == \E c \in Calls : Step(c)

Spec == Init /\ [][Next]_vars

\* Two Proxies that differ in Whatlog alone, basic for call 1 and detailed for
\* call 2, each handed the same inbound request and meeting the same upstream.
PairRemotes ==
  { Localhost \o <<":", "8", "0">>,
    Example \o <<":", "4", "4", "3">>,
    Localhost \o <<":", "x">> }

PairUpstreams ==
  { u \in Upstreams :
      \/ u.err
      \/ /\ u.StatusCode \in {200, 404}
         /\ u.ContentEncoding \in {<<>>, <<"gzip">>}
         /\ Len(u.full) \in {MaxBodyLen, Len(GzipStored(SubSeq(Text, 1, MaxBodyLen)))}
         /\ u.cut >= Len(u.full) - 1
         /\ u.StatusCode = 404 => u.cut = Len(u.full) }

InitWhatlog ==
  /\ InitLocals
  /\ flags = NoFlags
  /\ \E p \in ParamsSet :
       /\ p.Remote \in PairRemotes
       /\ params = [c \in Calls |->
                      [p EXCEPT !.Whatlog = IF c = 1 THEN LogWhatBasic ELSE LogWhatDetailed]]
  /\ pc = [c \in Calls |-> "entry"]
  /\ \E r \in InboundRequests(1) : req = [c \in Calls |-> [r EXCEPT !.Header = c]]
  /\ \E u \in PairUpstreams : upstream = [c \in Calls |-> u]

SpecWhatlog == InitWhatlog /\ [][Next]_vars

\* One Proxy with two requests in flight at once, a GET and a POST, each
\* with its own header map and its own upstream outcome: a transport error, a
\* plain 200, a sound gzip 404, a gzip 200 with a bad magic number and a gzip
\* 200 that breaks off before its last byte.
ConcurrentRemotes ==
  { Localhost \o <<":", "8", "0">>,
    Localhost \o <<":", "x">> }

ConcurrentUpstreams ==
  { u \in Upstreams :
      \/ u.err
      \/ /\ u.cut = Len(u.full)
         /\ \/ /\ u.StatusCode = 200 /\ u.ContentEncoding = <<>>
               /\ u.full = SubSeq(Text, 1, MaxBodyLen)
            \/ /\ u.StatusCode = 404 /\ u.ContentEncoding = <<"gzip">>
               /\ u.full = GzipStored(SubSeq(Text, 1, MaxBodyLen))
            \/ /\ u.StatusCode = 200 /\ u.ContentEncoding = <<"gzip">>
               /\ u.full \in DamagedBodies /\ u.full[1] = 30 }
        \cup { u \in Upstreams :
                 /\ ~u.err /\ u.StatusCode = 200 /\ u.ContentEncoding = <<"gzip">>
                 /\ u.full = GzipStored(SubSeq(Text, 1, MaxBodyLen))
                 /\ u.cut = Len(u.full) - 1 }

InitConcurrent ==
  /\ InitLocals
  /\ flags = NoFlags
  /\ \E p \in ParamsSet :
       /\ p.Remote \in ConcurrentRemotes
       /\ p.Whenlog \in {LogWhenOnNon200, LogWhenAlways}
       /\ params = [c \in Calls |-> p]
  /\ pc = [c \in Calls |-> "entry"]
  /\ req = [c \in Calls |->
              CHOOSE r \in InboundRequests(c) : r.Method = IF c = 1 THEN MethodGet ELSE MethodPost]
  /\ \E u1, u2 \in ConcurrentUpstreams : upstream = [c \in Calls |-> IF c = 1 THEN u1 ELSE u2]

SpecConcurrent == InitConcurrent /\ [][Next]_vars

\* One request through one Proxy, with panics.
InitPanic ==
  /\ InitLocals
  /\ flags = NoFlags
  /\ \E p \in ParamsSet :
       /\ p.Remote \in ConcurrentRemotes
       /\ params = [c \in Calls |-> p]
  /\ pc = [c \in Calls |-> IF c = 1 THEN "entry" ELSE "idle"]
  /\ \E r \in InboundRequests(1) : req = [c \in Calls |-> IF c = 1 THEN r ELSE Nil]
  /\ \E u \in ConcurrentUpstreams : upstream = [c \in Calls |-> IF c = 1 THEN u ELSE Nil]

NextPanic ==
  \/ Next
  \/ \E c \in Calls : PanicInStep(c)
  \/ \E c \in Calls : PanicInModify(c)
  \/ \E c \in Calls : PanicInClient(c)
  \/ \E c \in Calls : PanicInDo(c)
  \/ \E c \in Calls : PanicInRead(c)
  \/ \E c \in Calls : PanicInReadAll(c)
  \/ \E c \in Calls : PanicInWriteHeader(c)
  \/ \E c \in Calls : PanicInWrite(c)
  \/ \E c \in Calls : PanicInCloseReader(c)
  \/ \E c \in Calls : PanicInCloseBody(c)
  \/ \E c \in Calls : PanicInGuard502(c)
  \/ \E c \in Calls : Crash(c)

SpecPanic == InitPanic /\ [][NextPanic]_vars


\* The command lines: each log flag omitted, set to a value of its list, or
\* set to something else.
FlagsArgs ==
  [ whenlog : {Omitted, LogWhenOnError, LogWhenOnNon200, LogWhenAlways, "never"},
    whatlog : {Omitted, LogWhatBasic, LogWhatDetailed, "all"},
    debugmode : BOOLEAN,
    remote : {Omitted, Localhost \o <<":", "8", "0">>},
    method : {Omitted, "device", "ntlm"},
    credentials : BOOLEAN ]

\* The process from its start: newProxyFromFlags on a command line, then the
\* Proxy it returned serving one request.
InitFlags ==
  /\ InitLocals
  /\ \E a \in FlagsArgs :
       flags = [args |-> a, Method |-> "", whenlogstr |-> "", whatlogstr |-> "",
                debugmode |-> FALSE, pc |-> "parse"]
  /\ params = [c \in Calls |-> ZeroParams]
  /\ pc = [c \in Calls |-> "idle"]
  /\ req = [c \in Calls |-> Nil]
  /\ upstream = [c \in Calls |-> Nil]

NextFlags ==
  \/ FlagParse
  \/ CheckMethod
  \/ CheckWhenlog
  \/ CheckWhatlog
  \/ ApplyDebugMode
  \/ CheckStr
  \/ SelectProvider
  \/ Serve
  \/ Next

SpecFlags == InitFlags /\ [][NextFlags]_vars

----------------------------------------------------------------------------
\* What the caller and the log sink have seen of call c.

IsWriteHeader(x) == x.op = "WriteHeader"
IsWrite(x) == x.op = "Write"

\* The calls of WriteHeader and of Write made on rw[c], in order.
HeaderWrites(c) == SelectSeq(rw[c].calls, IsWriteHeader)
BodyWrites(c) == SelectSeq(rw[c].calls, IsWrite)

\* The blocks call c has printed.
Printed(c) == SelectSeq(stdout, LAMBDA b : b.call = c)

ErrorKinds ==
  { "Error when make transport request:", "Error when send the transport request:",
    "Error while decoding gzip data:", "Error while reading gzip data:" }

\* Call c took one of the four early returns.
Aborted(c) == \E i \in DOMAIN logStrBuilder[c] : logStrBuilder[c][i].kind \in ErrorKinds

\* Client().Do has returned a response to call c.
GotResponse(c) == response[c] # Nil

\* The gzip encodings of text t that the upstreams of the model send.
GzipOf(t) ==
  { GzipStored(t), GzipFixed(t) }
    \cup { GzipStored(SubSeq(t, 1, k)) \o GzipStored(SubSeq(t, k + 1, Len(t))) : k \in 1..(Len(t) - 1) }
    \cup (IF t = DynamicText THEN {GzipDynamic} ELSE {})

Texts == { SubSeq(Text, 1, n) : n \in 0..Len(Text) } \cup {DynamicText}

\* The sound gzip bodies with the text each encodes.
SoundBodies == UNION { GzipOf(t) : t \in Texts }
TextOf == [b \in SoundBodies |-> CHOOSE t \in Texts : b \in GzipOf(t)]

\* The upstream of call c sends a sound gzip body and all of it arrives.
SoundGzip(c) ==
  /\ upstream[c].cut = Len(upstream[c].full)
  /\ upstream[c].full \in SoundBodies

\* The bytes of the upstream body that arrive.
Delivered(c) == SubSeq(upstream[c].full, 1, upstream[c].cut)

----------------------------------------------------------------------------
\* C1: when the handler has exited, exactly one status has been written to
\* the inbound ResponseWriter: the upstream status on the completed path, the
\* synthetic 502 on the four early returns; and at no moment has more than
\* one status been written.
C1_ExactlyOneStatus ==
  \A c \in Calls :
    /\ Len(HeaderWrites(c)) <= 1
    /\ pc[c] = "done" =>
         /\ Len(HeaderWrites(c)) = 1
         /\ IF Aborted(c)
            THEN HeaderWrites(c)[1].code = 502
            ELSE HeaderWrites(c)[1].code = upstream[c].StatusCode

\* A call that got an upstream 200 and still ended with the guard's 502.
C1_Witness ==
  \E c \in Calls :
    /\ pc[c] = "done"
    /\ GotResponse(c) /\ response[c].StatusCode = 200
    /\ Aborted(c)
    /\ Len(HeaderWrites(c)) = 1 /\ HeaderWrites(c)[1].code = 502

\* C2: a call that fails at request construction, at the transport call or
\* at gzip decoding/reading never writes a body nor any status but 502, and
\* has written exactly the 502 when it has exited.
C2_AbortIsBare502 ==
  \A c \in Calls :
    Aborted(c) =>
      /\ BodyWrites(c) = <<>>
      /\ \A i \in DOMAIN rw[c].calls : rw[c].calls[i] = WriteHeaderCall(502)
      /\ pc[c] = "done" => rw[c].calls = <<WriteHeaderCall(502)>>

\* A request whose method http.NewRequest refuses has failed at construction
\* and ended in the bare 502, the Provider never invoked.
C2_Witness ==
  \E c \in Calls :
    /\ pc[c] = "done"
    /\ ~validMethod(req[c].Method) /\ req[c].Method # <<>>
    /\ Aborted(c) /\ req1[c] = Nil /\ invoked[c] = <<>>
    /\ rw[c].calls = <<WriteHeaderCall(502)>>

\* C3 as stated: whenever the upstream call returned a response, the caller
\* gets the upstream status and the complete upstream body (decompressed when
\* gzip), also when the body read failed part-way.
C3_Original ==
  \A c \in Calls :
    (pc[c] = "done" /\ GotResponse(c)) =>
      /\ Len(HeaderWrites(c)) = 1
      /\ HeaderWrites(c)[1].code = upstream[c].StatusCode
      /\ Len(BodyWrites(c)) = 1
      /\ IF upstream[c].ContentEncoding = <<"gzip">>
         THEN /\ upstream[c].full \in SoundBodies
              /\ BodyWrites(c)[1].data = TextOf[upstream[c].full]
         ELSE BodyWrites(c)[1].data = upstream[c].full

\* C3 amended: when the upstream call returned a response and, under
\* Content-Encoding gzip, the body is sound and arrives whole, the caller
\* gets the upstream status and the body as far as it was read: the decoded
\* text under gzip, otherwise the bytes that arrived, which are the complete
\* body unless the read failed part-way.
C3_StatusAndBodyAsRead ==
  \A c \in Calls :
    (pc[c] = "done" /\ GotResponse(c)
       /\ (upstream[c].ContentEncoding = <<"gzip">> => SoundGzip(c))) =>
      /\ rw[c].calls[1] = WriteHeaderCall(upstream[c].StatusCode)
      /\ Len(HeaderWrites(c)) = 1
      /\ Len(BodyWrites(c)) = 1
      /\ IF upstream[c].ContentEncoding = <<"gzip">>
         THEN BodyWrites(c)[1].data = TextOf[upstream[c].full]
         ELSE /\ BodyWrites(c)[1].data = Delivered(c)
              /\ upstream[c].cut = Len(upstream[c].full) =>
                   BodyWrites(c)[1].data = upstream[c].full

\* A non-gzip body whose read failed part-way, forwarded with the upstream
\* status.
C3_Witness ==
  \E c \in Calls :
    /\ pc[c] = "done" /\ GotResponse(c)
    /\ upstream[c].ContentEncoding = <<>>
    /\ upstream[c].cut < Len(upstream[c].full)
    /\ upstream[c].cut > 0
    /\ Len(BodyWrites(c)) = 1
    /\ BodyWrites(c)[1].data = Delivered(c)
    /\ HeaderWrites(c)[1].code = upstream[c].StatusCode

\* C4 as stated: completeFlag is true only if the final response write has
\* succeeded.
C4_Original ==
  \A c \in Calls :
    completeFlag[c] =>
      /\ Len(BodyWrites(c)) = 1
      /\ ~BodyWrites(c)[1].err

\* The final response write of call c has been made.
ResponseWritten(c) ==
  /\ GotResponse(c)
  /\ \E failed \in BOOLEAN :
       rw[c].calls = <<WriteHeaderCall(response[c].StatusCode), WriteCall(buf[c], failed)>>

C4_FlagOnlyAfterWrite ==
  \A c \in Calls :
    /\ completeFlag[c] => ResponseWritten(c) /\ ~Aborted(c)
    /\ (Aborted(c) /\ Deferred(c, "guard502")) => ~completeFlag[c]

C4_FlagStaysTrue == \A c \in Calls : completeFlag[c] => completeFlag'[c]

\* C4 amended: completeFlag starts false, changes to true at most once, and
\* is true only if the final response write (WriteHeader of the upstream
\* status, then Write of the body) has been made, whether or not Write
\* returned an error; on every early return it is false when the guard runs.
C4_CompleteFlag == []C4_FlagOnlyAfterWrite /\ [][C4_FlagStaysTrue]_vars

\* completeFlag set after a Write that returned an error.
C4_Witness ==
  \E c \in Calls :
    /\ completeFlag[c]
    /\ pc[c] = "done"
    /\ Len(BodyWrites(c)) = 1
    /\ BodyWrites(c)[1].err

\* C5: for a call that reached the response write with upstream status s, a
\* log is printed never under onError, exactly when s is not 200 under
\* onNon200, and always under always.
C5_PolicyGating ==
  \A c \in Calls :
    (pc[c] = "done" /\ BodyWrites(c) # <<>>) =>
      LET s == upstream[c].StatusCode
          w == params[c].Whenlog
      IN  /\ w = "onError" => Printed(c) = <<>>
          /\ w = "onNon200" => (Len(Printed(c)) = 1 <=> s # 200)
          /\ w = "always" => Len(Printed(c)) = 1

\* A completed 404 under onError, and nothing printed.
C5_Witness ==
  \E c \in Calls :
    /\ pc[c] = "done" /\ BodyWrites(c) # <<>>
    /\ params[c].Whenlog = "onError"
    /\ upstream[c].StatusCode = 404
    /\ Printed(c) = <<>>

\* C6: logFlag is false only for a completed request, and under every
\* Whenlog a call that took an early return prints its log, error line
\* included, by the time it has exited.
C6_AbortAlwaysLogs ==
  \A c \in Calls :
    /\ ~logFlag[c] => completeFlag[c]
    /\ (pc[c] = "done" /\ Aborted(c)) =>
         /\ Len(Printed(c)) = 1
         /\ Printed(c)[1].text = logStrBuilder[c]

\* A gzip failure under onError that has printed its log.
C6_Witness ==
  \E c \in Calls :
    /\ pc[c] = "done"
    /\ params[c].Whenlog = "onError"
    /\ GotResponse(c) /\ Aborted(c)
    /\ Len(Printed(c)) = 1

\* The outgoing request of call c with the header map it references.
Outgoing(c) ==
  IF req1[c] = Nil THEN Nil
  ELSE [req1[c] EXCEPT !.Header = heap[req1[c].Header]]

\* The status and body call c has written, without the result of Write.
Answer(c) == [i \in DOMAIN rw[c].calls |->
                <<rw[c].calls[i].op, rw[c].calls[i].code, rw[c].calls[i].data>>]

\* C7: two runs that differ only in Whatlog and see the same request and the
\* same upstream write the same status and body, send the same outgoing
\* request and agree on whether a log is printed.
C7_WhatlogOnlyInLog ==
  \A a, b \in Calls :
    ( /\ pc[a] = "done" /\ pc[b] = "done"
      /\ [params[a] EXCEPT !.Whatlog = "basic"] = [params[b] EXCEPT !.Whatlog = "basic"]
      /\ [req[a] EXCEPT !.Header = 0] = [req[b] EXCEPT !.Header = 0]
      /\ upstream[a] = upstream[b] ) =>
        /\ Answer(a) = Answer(b)
        /\ rw[a].header = rw[b].header
        /\ Outgoing(a) = Outgoing(b)
        /\ Len(Printed(a)) = Len(Printed(b))

\* A basic and a detailed run of the same POST, both answered with the same
\* non-empty body, whose printed logs differ.
C7_Witness ==
  /\ pc[1] = "done" /\ pc[2] = "done"
  /\ params[1].Whatlog = "basic" /\ params[2].Whatlog = "detailed"
  /\ req[1].Body # <<>>
  /\ Len(BodyWrites(1)) = 1 /\ BodyWrites(1)[1].data # <<>>
  /\ Answer(1) = Answer(2)
  /\ Len(Printed(1)) = 1 /\ Len(Printed(2)) = 1
  /\ Printed(1)[1].text # Printed(2)[1].text

\* The port of host:port: anything without a colon or a bracket.
IsPort(s) == \A i \in DOMAIN s : s[i] \notin {":", "[", "]"}

\* remote is host:port with host a loopback name or address, a host that
\* holds colons written in brackets.
LoopbackForm(remote) ==
  \E h \in { <<"l", "o", "c", "a", "l", "h", "o", "s", "t">>,
             <<"1", "2", "7", ".", "0", ".", "0", ".", "1">>,
             <<":", ":", "1">> } :
    \E k \in DOMAIN remote :
      /\ remote[k] = ":"
      /\ IsPort(SubSeq(remote, k + 1, Len(remote)))
      /\ \/ SubSeq(remote, 1, k - 1) = <<"[">> \o h \o <<"]">>
         \/ SubSeq(remote, 1, k - 1) = h /\ IsPort(h)

\* remote without a trailing colon.
WithoutEmptyPort(remote) ==
  IF remote # <<>> /\ remote[Len(remote)] = ":"
  THEN SubSeq(remote, 1, Len(remote) - 1)
  ELSE remote

\* The scheme C8 gives a Remote: http when it is host:port with a loopback
\* host, https otherwise, a Remote without port included.
ClaimedScheme(remote) ==
  IF LoopbackForm(remote) THEN <<"h", "t", "t", "p">> ELSE <<"h", "t", "t", "p", "s">>

\* C8, the rewrite: once the target is rewritten its host is the configured
\* Remote and its scheme the one of the claim, and an outgoing request
\* carries that scheme.
C8_RewrittenTarget ==
  \A c \in Calls :
    /\ pc[c] \notin {"idle", "entry", "readBody", "rewrite"} =>
         /\ req[c].URL.Host = params[c].Remote
         /\ req[c].URL.Scheme = ClaimedScheme(params[c].Remote)
    /\ req1[c] # Nil => req1[c].URL.Scheme = ClaimedScheme(params[c].Remote)

\* C8, the outgoing request: its host is the configured Remote
\* (http.NewRequest drops an empty port), both in its URL and in its Host
\* field.
C8_OutgoingHost ==
  \A c \in Calls :
    req1[c] # Nil =>
      /\ req1[c].URL.Host = WithoutEmptyPort(params[c].Remote)
      /\ req1[c].Host = WithoutEmptyPort(params[c].Remote)

\* The outgoing host when the inbound URL is not opaque.
C8_OutgoingHostUnlessOpaque ==
  \A c \in Calls :
    (req1[c] # Nil /\ req[c].URL.Opaque = <<>>) =>
      /\ req1[c].URL.Host = WithoutEmptyPort(params[c].Remote)
      /\ req1[c].Host = WithoutEmptyPort(params[c].Remote)

\* C8: the outgoing request's host is always the configured Remote and its
\* scheme is https, except that it is http exactly when Remote is host:port
\* with a loopback host; a Remote that cannot be split into host and port
\* gives https.
C8_TargetHostAndScheme == C8_RewrittenTarget /\ C8_OutgoingHost

\* C9: the body is decoded exactly when the upstream Content-Encoding is
\* "gzip"; under any other value, none included, the bytes that arrived are
\* forwarded as they are; under gzip a body that cannot be decoded ends the
\* call as a transport failure does: an error line in the log, no body, the
\* guard's 502.
C9_GzipOnlyWhenExact ==
  \A c \in Calls :
    (pc[c] = "done" /\ GotResponse(c)) =>
      IF upstream[c].ContentEncoding = <<"gzip">>
      THEN IF SoundGzip(c)
           THEN /\ Len(BodyWrites(c)) = 1
                /\ BodyWrites(c)[1].data = TextOf[upstream[c].full]
           ELSE /\ rw[c].calls = <<WriteHeaderCall(502)>>
                /\ logStrBuilder[c][Len(logStrBuilder[c])].kind
                     \in {"Error while decoding gzip data:", "Error while reading gzip data:"}
                /\ Len(Printed(c)) = 1
      ELSE /\ Len(BodyWrites(c)) = 1
           /\ BodyWrites(c)[1].data = Delivered(c)

\* A gzip member under Content-Encoding GZIP, forwarded undecoded.
C9_Witness ==
  \E c \in Calls :
    /\ pc[c] = "done" /\ GotResponse(c)
    /\ upstream[c].ContentEncoding = <<"GZIP">>
    /\ upstream[c].full \in GzipBodies
    /\ upstream[c].cut = Len(upstream[c].full)
    /\ Len(BodyWrites(c)) = 1
    /\ BodyWrites(c)[1].data = upstream[c].full

\* C10: the handler writes a status and a body and nothing else: the header
\* map of the inbound ResponseWriter never receives a field, Content-Encoding
\* in particular.
C10_NoHeaderForwarded ==
  \A c \in Calls : \A n \in HeaderNames : rw[c].header[n] = <<>>

\* A decoded gzip answer whose Content-Encoding did not reach the caller.
C10_Witness ==
  \E c \in Calls :
    /\ pc[c] = "done"
    /\ GotResponse(c) /\ response[c].Header["Content-Encoding"] = <<"gzip">>
    /\ Len(BodyWrites(c)) = 1 /\ BodyWrites(c)[1].data = <<104, 105>>
    /\ rw[c].header["Content-Encoding"] = <<>>

----------------------------------------------------------------------------
\* The policy the command line selects: the flag's value, its default when
\* the flag is omitted.
SelectedWhenlog == FlagValue(flags.args.whenlog, "onError")
SelectedWhatlog == FlagValue(flags.args.whatlog, "basic")

\* C13: when newProxyFromFlags has returned a Proxy and -debugmode is not
\* set, Params.Whenlog is the value of -whenlog (onError when omitted) and
\* Params.Whatlog the value of -whatlog (basic when omitted), and the handler
\* follows them: under a selected onError a completed request prints no log.
C13_FlagsReachParams ==
  (flags.pc = "returned" /\ ~flags.args.debugmode) =>
    \A c \in Calls :
      /\ params[c].Whenlog = SelectedWhenlog
      /\ params[c].Whatlog = SelectedWhatlog
      /\ (pc[c] = "done" /\ BodyWrites(c) # <<>> /\ SelectedWhenlog = "onError") =>
           Printed(c) = <<>>

----------------------------------------------------------------------------
\* The invocations of op that call c has made.
Invoked(c, op) == SelectSeq(invoked[c], LAMBDA x : x.op = op)

\* C11: with two requests in flight through one Provider, the outgoing
\* request of a call carries the header map of that call's own inbound
\* request, every invocation of the Provider or its client by a call is handed
\* that map and no other, the credential Modify attaches is visible on the
\* call's inbound request, and the header map of a call changes only in a
\* step in which that call invokes Modify.
C11_OwnHeaderMap ==
  \A c \in Calls :
    /\ req1[c] # Nil => req1[c].Header = req[c].Header
    /\ \A i \in DOMAIN invoked[c] : invoked[c][i].header = req[c].Header
    /\ IF Invoked(c, "Modify") # <<>>
       THEN heap[req[c].Header] =
              [NoHeader EXCEPT !["Accept-Encoding"] = <<"gzip">>,
                               !["Authorization"] = <<provider.credential>>]
       ELSE heap[req[c].Header] = [NoHeader EXCEPT !["Accept-Encoding"] = <<"gzip">>]

C11_OnlyOwnModifyWrites ==
  \A c \in Calls :
    heap'[req[c].Header] # heap[req[c].Header] =>
      Len(Invoked(c, "Modify"))' = Len(Invoked(c, "Modify")) + 1

C11_NoCrossRequestHeader == []C11_OwnHeaderMap /\ [][C11_OnlyOwnModifyWrites]_vars

\* Call 2 has attached the credential to its own map while call 1, already
\* past construction, still holds its map untouched.
C11_Witness ==
  /\ req[1].Header # req[2].Header
  /\ Invoked(2, "Modify") # <<>> /\ Invoked(1, "Modify") = <<>>
  /\ req1[1] # Nil /\ req1[2] # Nil
  /\ heap[req[2].Header]["Authorization"] # <<>>
  /\ heap[req[1].Header]["Authorization"] = <<>>

----------------------------------------------------------------------------
\* The request line of call c as the claim describes it: the method and the
\* inbound URL with the configured remote as host and the scheme chosen for
\* it, in the text form of a URL.
RequestLine(c) ==
  LogEntry("Requesting:",
           <<req[c].Method,
             URLString([req[c].URL EXCEPT !.Host = params[c].Remote,
                                          !.Scheme = ClaimedScheme(params[c].Remote)])>>)

\* That line for the target /foo, spelled out.
RequestLineFoo(c) ==
  LogEntry("Requesting:",
           <<req[c].Method,
             ClaimedScheme(params[c].Remote) \o <<":", "/", "/">>
               \o escape(params[c].Remote, encodeHost) \o <<"/", "f", "o", "o">>>>)

\* The entries of a log text that carry a body.
BodyEntries(text) == SelectSeq(text, LAMBDA e : e.kind = "body")

\* C12 as stated: every emitted log holds the request line (method and full
\* rewritten URL) and the response status code; under basic it holds no
\* body, under detailed the request body and the response body.
C12_Original ==
  \A c \in Calls :
    Printed(c) # <<>> =>
      LET text == Printed(c)[1].text
      IN  /\ text[1] = RequestLine(c)
          /\ \E i \in DOMAIN text : text[i].kind = "Response Status Code:"
          /\ params[c].Whatlog = "basic" => BodyEntries(text) = <<>>
          /\ params[c].Whatlog = "detailed" =>
               /\ text[2] = LogEntry("body", <<req[c].Body>>)
               /\ Len(BodyEntries(text)) = 2

\* C12: every emitted log starts with the request line (method and full
\* rewritten URL); the log of an aborted call holds no response status code.
\* Under basic it holds no body, and for a call that was not
\* aborted it is the request line and the response status code.  Under
\* detailed the buffered request body follows the request line, and for a
\* call that was not aborted the status code is followed by the response body
\* as written to the caller (decompressed when gzip).
C12_LogContent ==
  \A c \in Calls :
    Printed(c) # <<>> =>
      LET text == Printed(c)[1].text
          status == LogEntry("Response Status Code:", <<upstream[c].StatusCode>>)
      IN  /\ text[1] = RequestLine(c)
          /\ [req[c].URL EXCEPT !.Host = <<>>, !.Scheme = <<>>]
                = [EmptyURL EXCEPT !.Path = <<"/", "f", "o", "o">>] =>
               text[1] = RequestLineFoo(c)
          /\ Aborted(c) => \A i \in DOMAIN text : text[i].kind # "Response Status Code:"
          /\ params[c].Whatlog = "basic" =>
               /\ BodyEntries(text) = <<>>
               /\ ~Aborted(c) => text = <<RequestLine(c), status>>
          /\ params[c].Whatlog = "detailed" =>
               /\ text[2] = LogEntry("body", <<req[c].Body>>)
               /\ ~Aborted(c) =>
                    text = <<RequestLine(c), LogEntry("body", <<req[c].Body>>),
                             status, LogEntry("body", <<BodyWrites(c)[1].data>>)>>
               /\ Aborted(c) => Len(BodyEntries(text)) = 1

\* A detailed log of a POST answered with a gzip body: the request body and
\* the decoded text are both in it.
C12_Witness ==
  \E c \in Calls :
    /\ Len(Printed(c)) = 1
    /\ params[c].Whatlog = "detailed"
    /\ req[c].Body # <<>>
    /\ GotResponse(c) /\ upstream[c].ContentEncoding = <<"gzip">>
    /\ Len(Printed(c)[1].text) = 4
    /\ Printed(c)[1].text[2].args = <<req[c].Body>>
    /\ Printed(c)[1].text[4].args = <<<<104, 105>>>>

----------------------------------------------------------------------------
\* The handler body of call c is still running.
Running(c) == pc[c] \notin {"idle", "return", "done"}

\* C14: a call prints at most one block; nothing of it is on the output while
\* its steps are still running; the block is the whole text accumulated
\* during the call; and once the call has exited the block is there exactly
\* when logFlag is set.
C14_OneBlockAtExit ==
  \A c \in Calls :
    /\ Len(Printed(c)) <= 1
    /\ Running(c) => Printed(c) = <<>>
    /\ Printed(c) # <<>> =>
         /\ Printed(c)[1].text = logStrBuilder[c]
         /\ logStrBuilder[c] # <<>>
         /\ logStrBuilder[c][1].kind = "Requesting:"
         /\ logStrBuilder[c][Len(logStrBuilder[c])].kind
              \in ErrorKinds \cup {"Response Status Code:", "body"}
    /\ pc[c] = "done" => (Len(Printed(c)) = 1 <=> logFlag[c])

\* The output grows only by the whole text of a call whose body has
\* returned, and the text of such a call no longer changes.
C14_PrintOnlyAfterBody ==
  /\ stdout' # stdout =>
       \E c \in Calls :
         /\ pc[c] = "return"
         /\ stdout' = Append(stdout, [call |-> c, text |-> logStrBuilder[c]])
  /\ \A c \in Calls : ~Running(c) /\ pc[c] # "idle" => logStrBuilder'[c] = logStrBuilder[c]

C14_LogOnceAtExit == []C14_OneBlockAtExit /\ [][C14_PrintOnlyAfterBody]_vars

\* Both calls have exited and printed: one after a failed gzip read, one
\* after a completed response.
C14_Witness ==
  \E a, b \in Calls :
    /\ pc[a] = "done" /\ pc[b] = "done"
    /\ Len(Printed(a)) = 1 /\ Len(Printed(b)) = 1
    /\ Aborted(a) /\ GotResponse(a)
    /\ ~Aborted(b) /\ Len(Printed(b)[1].text) >= 2

----------------------------------------------------------------------------
\* The statuses under which a Whenlog value asks for no log.
Quiet(whenlog, status) ==
  \/ whenlog = "onError"
  \/ whenlog = "onNon200" /\ status = 200

\* C15: logFlag is true from the start of the call up to the policy step;
\* it is false only after the response write, and then exactly when Whenlog
\* and the upstream status ask for no log.
C15_LogFlagByPolicy ==
  \A c \in Calls :
    /\ pc[c] \notin {"return", "done"} => logFlag[c]
    /\ ~logFlag[c] => ResponseWritten(c)
    /\ (pc[c] \in {"return", "done"} /\ ResponseWritten(c)) =>
         (logFlag[c] <=> ~Quiet(params[c].Whenlog, upstream[c].StatusCode))

\* logFlag never changes from false to true.
C15_NeverBackToTrue == \A c \in Calls : ~logFlag[c] => ~logFlag'[c]

C15_LogFlagMonotone == []C15_LogFlagByPolicy /\ [][C15_NeverBackToTrue]_vars

\* A 200 under onNon200 whose Write failed: logFlag has gone false all the
\* same.
C15_Witness ==
  \E c \in Calls :
    /\ pc[c] = "done"
    /\ params[c].Whenlog = "onNon200"
    /\ ResponseWritten(c) /\ upstream[c].StatusCode = 200
    /\ BodyWrites(c)[1].err
    /\ ~logFlag[c]

----------------------------------------------------------------------------
\* The header fields of an inbound request, and those fields with the
\* credential of the Provider.
InboundFields == [NoHeader EXCEPT !["Accept-Encoding"] = <<"gzip">>]
WithCredential == [InboundFields EXCEPT !["Authorization"] = <<provider.credential>>]

\* Whether the log of call c holds an entry of this kind.
Logged(c, kind) == \E i \in DOMAIN logStrBuilder[c] : logStrBuilder[c][i].kind = kind

\* C16: what a later step leaves behind is there only when every earlier
\* step has left its own: the request line shows the rewritten target and,
\* when detailed, the buffered body; the outgoing request exists only after
\* the request line and carries the buffered body; Modify is invoked only on a
\* built request, at most once, and sees the header map without credential;
\* the upstream call follows Modify and sends the credential; the status is
\* logged only after a response was read, the response is written only after
\* the status was logged, completeFlag is set only after the write and logFlag
\* cleared only after completeFlag.  A call whose construction failed invokes
\* neither Modify nor the upstream call, and a call that built its request has
\* invoked Modify exactly once when it has exited.
C16_StepOrder ==
  \A c \in Calls :
    /\ logStrBuilder[c] # <<>> =>
         /\ req[c].URL.Host = params[c].Remote
         /\ logStrBuilder[c][1] = RequestLine(c)
         /\ params[c].Whatlog = "detailed" =>
              logStrBuilder[c][2] = LogEntry("body", <<req[c].Body>>)
    /\ req1[c] # Nil =>
         /\ logStrBuilder[c] # <<>>
         /\ req1[c].Body = req[c].Body
    /\ Logged(c, "Error when make transport request:") =>
         /\ req1[c] = Nil
         /\ invoked[c] = <<>>
    /\ invoked[c] # <<>> =>
         /\ req1[c] # Nil
         /\ invoked[c][1] = [op |-> "Modify", header |-> req[c].Header, fields |-> InboundFields]
    /\ Len(invoked[c]) >= 2 =>
         invoked[c] = <<invoked[c][1],
                        [op |-> "Do", header |-> req[c].Header, fields |-> WithCredential]>>
    /\ GotResponse(c) => Len(invoked[c]) = 2
    /\ Logged(c, "Error when send the transport request:") =>
         Len(invoked[c]) = 2 /\ ~GotResponse(c)
    /\ Logged(c, "Response Status Code:") =>
         /\ GotResponse(c)
         /\ IF upstream[c].ContentEncoding = <<"gzip">>
            THEN SoundGzip(c) /\ buf[c] = TextOf[upstream[c].full]
            ELSE buf[c] = Delivered(c)
    /\ rw[c].calls # <<>> /\ ~Aborted(c) =>
         /\ Logged(c, "Response Status Code:")
         /\ ResponseWritten(c)
    /\ completeFlag[c] => ResponseWritten(c)
    /\ ~logFlag[c] => completeFlag[c]
    /\ (pc[c] = "done" /\ req1[c] # Nil) => Len(Invoked(c, "Modify")) = 1

\* A call that ran through all eleven steps.
C16_Witness ==
  \E c \in Calls :
    /\ pc[c] = "done"
    /\ Len(invoked[c]) = 2
    /\ ResponseWritten(c)
    /\ completeFlag[c] /\ ~logFlag[c]
    /\ params[c].Whatlog = "detailed" /\ req[c].Body # <<>>

----------------------------------------------------------------------------
\* The transport call of call c has been made and has failed.
TransportFailed(c) == Invoked(c, "Do") # <<>> /\ Do(upstream[c], req1[c]).err

\* C17: a call makes at most one upstream call.  Once that call has failed,
\* the handler body has returned with the error as the last line of the log,
\* without a response and without a second attempt, and nothing is written to
\* the caller but the 502, which is there when the handler has exited.
C17_NoRetryNoBody ==
  \A c \in Calls :
    /\ Len(Invoked(c, "Do")) <= 1
    /\ TransportFailed(c) =>
         /\ pc[c] \in {"return", "done"}
         /\ ~GotResponse(c)
         /\ logStrBuilder[c][Len(logStrBuilder[c])].kind = "Error when send the transport request:"
         /\ Len(SelectSeq(logStrBuilder[c], LAMBDA e : e.kind \in ErrorKinds)) = 1
         /\ BodyWrites(c) = <<>>
         /\ rw[c].calls \in {<<>>, <<WriteHeaderCall(502)>>}
         /\ pc[c] = "done" => rw[c].calls = <<WriteHeaderCall(502)>>

\* After a transport failure the caller is written to by the deferred guard
\* alone, after the deferred log printer has run.
C17_GuardWrites502 ==
  \A c \in Calls :
    (TransportFailed(c) /\ rw'[c] # rw[c]) =>
      /\ pc[c] = "return"
      /\ defers[c] = <<"guard502">> /\ defers'[c] = <<>>
      /\ Len(Printed(c)) = 1

C17_SingleUpstreamCall == []C17_NoRetryNoBody /\ [][C17_GuardWrites502]_vars

\* A POST whose upstream call failed: one attempt, the error logged and
\* printed under onError, the 502 written.
C17_Witness ==
  \E c \in Calls :
    /\ pc[c] = "done"
    /\ TransportFailed(c)
    /\ req[c].Method = MethodPost
    /\ params[c].Whenlog = "onError"
    /\ Len(Invoked(c, "Do")) = 1
    /\ Len(Printed(c)) = 1
    /\ HeaderWrites(c) = <<WriteHeaderCall(502)>>

----------------------------------------------------------------------------
\* The bytes that arrive start with a gzip header (the bodies of the model
\* carry no optional header field), so that gzip.NewReader succeeds.
HeaderArrives(c) ==
  /\ upstream[c].cut >= 10
  /\ SubSeq(upstream[c].full, 1, 3) = <<31, 139, 8>>

\* Call c has acquired a gzip reader.
ReaderCreated(c) ==
  /\ GotResponse(c)
  /\ upstream[c].ContentEncoding = <<"gzip">>
  /\ HeaderArrives(c)
  /\ pc[c] # "decode"

\* Whether the deferred call is still pending for call c.
Pending(c, name) == \E i \in DOMAIN defers[c] : defers[c][i] = name

\* C18: a response body or gzip reader that is open has its Close pending,
\* and is never closed twice.  When the handler has exited nothing is open:
\* the body of a response was closed exactly once, also when gzip.NewReader
\* or the gzip read failed, a gzip reader that was created was closed exactly
\* once, and what was never acquired was never closed.
C18_ReleasedOnEveryPath ==
  \A c \in Calls :
    /\ open[c].body => Pending(c, "closeBody") /\ open[c].bodyCloses = 0
    /\ open[c].reader => Pending(c, "closeReader") /\ open[c].readerCloses = 0
    /\ open[c].reader => open[c].body
    /\ open[c].bodyCloses <= 1 /\ open[c].readerCloses <= 1
    /\ pc[c] = "done" =>
         /\ ~open[c].body /\ ~open[c].reader
         /\ open[c].bodyCloses = (IF GotResponse(c) THEN 1 ELSE 0)
         /\ open[c].readerCloses = (IF ReaderCreated(c) THEN 1 ELSE 0)

\* A gzip body that broke off during the read: the reader and the body have
\* both been closed by the time the 502 is out.
C18_Witness ==
  \E c \in Calls :
    /\ pc[c] = "done"
    /\ Logged(c, "Error while reading gzip data:")
    /\ open[c] = [body |-> FALSE, bodyCloses |-> 1, reader |-> FALSE, readerCloses |-> 1]
    /\ rw[c].calls = <<WriteHeaderCall(502)>>

----------------------------------------------------------------------------
\* The output as the sink holds it: the lines of every block in the order
\* written, each with the call that wrote it.
RECURSIVE Lines(_)
Lines(out) ==
  IF out = <<>> THEN <<>>
  ELSE Lines(SubSeq(out, 1, Len(out) - 1))
         \o [i \in DOMAIN out[Len(out)].text |->
               [call |-> out[Len(out)].call, line |-> out[Len(out)].text[i]]]

\* The lines of call c on the output.
LinesOf(c) == SelectSeq(Lines(stdout), LAMBDA l : l.call = c)

\* C19: on the shared output the lines of a call lie together, no line of
\* another call between two of them, and they are the call's whole log text
\* in its order.
C19_BlocksNotInterleaved ==
  LET w == Lines(stdout)
  IN  /\ \A i, k \in DOMAIN w :
           (i < k /\ w[i].call = w[k].call) =>
             \A j \in i..k : w[j].call = w[i].call
      /\ \A c \in Calls :
           LinesOf(c) # <<>> =>
             LinesOf(c) = [i \in DOMAIN logStrBuilder[c] |->
                             [call |-> c, line |-> logStrBuilder[c][i]]]

\* Both calls have printed a log of several lines, call 2 before call 1.
C19_Witness ==
  /\ Len(stdout) = 2
  /\ stdout[1].call = 2 /\ stdout[2].call = 1
  /\ Len(stdout[1].text) >= 2 /\ Len(stdout[2].text) >= 3
  /\ Len(Lines(stdout)) = Len(stdout[1].text) + Len(stdout[2].text)

----------------------------------------------------------------------------
\* C20, the deferred guards on a panic: when a call has crashed every
\* deferred call has run, the log was printed exactly when logFlag was still
\* set and the 502 written when completeFlag was still false.
C20_GuardsRan ==
  \A c \in Calls :
    pc[c] = "crashed" =>
      /\ defers[c] = <<>>
      /\ ~open[c].body /\ ~open[c].reader
      /\ Len(Printed(c)) = (IF logFlag[c] THEN 1 ELSE 0)
      /\ logFlag[c] => Printed(c)[1].text = logStrBuilder[c]
      /\ ~completeFlag[c] =>
           rw[c].calls[Len(rw[c].calls)] \in
             {WriteHeaderCall(502), Panicked(WriteHeaderCall(502))}

\* C20, the caller: once a WriteHeader has returned, no call is written a
\* second status.
C20_NoSecondStatus ==
  \A c \in Calls :
    \A i, j \in DOMAIN rw[c].calls :
      (i < j /\ IsWriteHeader(rw[c].calls[i]) /\ ~rw[c].calls[i].panicked) =>
        ~IsWriteHeader(rw[c].calls[j])

\* C20: on a panic at any step the deferred guards run, print the log when
\* logFlag is set and write the 502 when completeFlag is false, and no caller
\* that was written the upstream status is written a second one.
C20_PanicGuards == C20_GuardsRan /\ C20_NoSecondStatus

====
